---- MODULE Spec2Model ----
(***************************************************************************)
(* A model of the risp interpreter: symbol interner, scoped environment,   *)
(* evaluator (interpreter.rs), reader/lexer and error localisation.        *)
(*                                                                         *)
(* Text is a sequence of one-character strings.  Trace indices are the     *)
(* 0-based child indices of the code; TLA+ sequences are 1-based, so child *)
(* i of a list l is l[i+1].  Numbers are the integer-valued f64 of the     *)
(* programs below.                                                         *)
(***************************************************************************)
EXTENDS Integers, Sequences, FiniteSets, TLC

VARIABLES
    symbols,          \* Interpreter.symbols: the interner
    env,              \* Interpreter.env: Env.vars, the scope stack
    reader,           \* Reader.stack of the REPL's reader
    overflow_checks,  \* whether the build panics on integer overflow
    aborted,          \* the process ended: a panic, a stack overflow, the REPL loop left
    out,              \* what the last operation was given and returned
    fed               \* history: lines read since the reader's stack was last empty

vars == <<symbols, env, reader, overflow_checks, aborted, out, fed>>

\* ------------------------------------------------------------------ bounds
\* Recursion depth granted to one top-level evaluation (host call stack).
MaxDepth == 12
\* Largest number of arguments of the generated call forms.
MaxArgs == 3
\* Largest number of positional parameters of the generated callables.
MaxPos == 2
\* lines handed to the reader while one form is incomplete
MaxChunks == 3
\* Number of names that are new to the interner of a fresh interpreter.
MaxNames == 3
\* Number of calls of trace and frame made on one error built step by step.
MaxCalls == 4
\* Longest trace handed to handle_failed_form on its own.
MaxTrace == 2
\* Longest parameter list handed to parse_param_list on its own.
MaxParams == 4
\* Number of characters handed to one Reader, over all its chunks of text.
MaxInput == 4

\* ------------------------------------------------------------- sequences
Last(s) == s[Len(s)]
Front(s) == SubSeq(s, 1, Len(s) - 1)

RECURSIVE Flatten(_)
Flatten(ss) == IF ss = <<>> THEN <<>> ELSE Head(ss) \o Flatten(Tail(ss))

RECURSIVE JoinWith(_, _)
\* slice::join(sep)
JoinWith(ss, sep) ==
    IF ss = <<>> THEN <<>>
    ELSE IF Len(ss) = 1 THEN ss[1]
    ELSE ss[1] \o sep \o JoinWith(Tail(ss), sep)

\* ------------------------------------------------------------------ values
Bool(b) == [t |-> "Bool", b |-> b]
Number(n) == [t |-> "Number", n |-> n]
String(s) == [t |-> "String", str |-> s]
Symbol(id) == [t |-> "Symbol", sym |-> id]
List(l) == [t |-> "List", l |-> l]
SpecialForm(sf) == [t |-> "SpecialForm", sf |-> sf]
Native(pos, rst, f) == [t |-> "Native", pos |-> pos, rest |-> rst, f |-> f]
\* the function values of env.rs: LispObject::Lambda(ParamList, Sexpr) and
\* LispObject::Macro(ParamList, Sexpr)
Lambda(pos, rst, forms) == [t |-> "Lambda", pos |-> pos, rest |-> rst, forms |-> forms]
Macro(pos, rst, forms) == [t |-> "Macro", pos |-> pos, rest |-> rst, forms |-> forms]
\* The absent value of an Option / of a result that carries none.
None == [t |-> "None"]
Some(x) == [t |-> "Some", x |-> x]

\* ------------------------------------------------------------------- names
n_quote == <<"q", "u", "o", "t", "e">>
n_quasiquote == <<"q", "u", "a", "s", "i", "q", "u", "o", "t", "e">>
n_unquote == <<"u", "n", "q", "u", "o", "t", "e">>
n_unquote_splice == <<"u", "n", "q", "u", "o", "t", "e", "-", "s", "p", "l", "i", "c", "e">>
n_rest_marker == <<"&", "r", "e", "s", "t">>
n_fn == <<"f", "n">>
n_macro == <<"m", "a", "c", "r", "o">>
n_def == <<"d", "e", "f">>
n_set == <<"s", "e", "t">>
n_if == <<"i", "f">>
n_let == <<"l", "e", "t">>
n_begin == <<"b", "e", "g", "i", "n">>
n_uninterned == <<"~", "~", "u", "n", "i", "n", "t", "e", "r", "n", "e", "d", "~", "~">>

\* ---------------------------------------------------------------- interner
\* An intern that computes the next id and does not store it in next_id.
intern_stale_id(sy, name) ==
    IF name \in DOMAIN sy.registry
    THEN [sy |-> sy, id |-> sy.registry[name]]
    ELSE LET id == sy.next_id + 1
         IN [sy |-> [sy EXCEPT !.next_id = @,
                               !.registry = (name :> id) @@ sy.registry,
                               !.reverse = (id :> name) @@ sy.reverse],
             id |-> id]

\* Symbols::intern: the updated interner and the id.
intern(sy, name) ==
    IF name \in DOMAIN sy.registry
    THEN [sy |-> sy, id |-> sy.registry[name]]
    ELSE LET id == sy.next_id + 1
         IN [sy |-> [sy EXCEPT !.next_id = id,
                               !.registry = (name :> id) @@ sy.registry,
                               !.reverse = (id :> name) @@ sy.reverse],
             id |-> id]

RECURSIVE intern_all(_, _)
\* intern applied to a sequence of names, in order
intern_all(sy, names) ==
    IF names = <<>> THEN sy
    ELSE intern_all(intern(sy, Head(names)).sy, Tail(names))

\* Symbols::as_string
as_string(sy, id) ==
    IF id \in DOMAIN sy.reverse THEN Some(sy.reverse[id]) ELSE None

\* as_string(..).unwrap_or("~~uninterned~~")
name_of(sy, id) ==
    IF id \in DOMAIN sy.reverse THEN sy.reverse[id] ELSE n_uninterned

\* Symbols::new: the five eagerly interned names; sym_fn and sym_macro are the
\* two further well-known ids interpreter.rs compares against.
Symbols_new ==
    LET empty == [registry |-> <<>>, reverse |-> <<>>, next_id |-> 0]
    IN intern_all(empty, <<n_quote, n_quasiquote, n_unquote, n_unquote_splice,
                           n_rest_marker>>)

sym_quote(sy) == sy.registry[n_quote]
sym_quasiquote(sy) == sy.registry[n_quasiquote]
sym_unquote(sy) == sy.registry[n_unquote]
sym_unquote_splice(sy) == sy.registry[n_unquote_splice]
sym_rest(sy) == sy.registry[n_rest_marker]
sym_fn(sy) == sy.registry[n_fn]
sym_macro(sy) == sy.registry[n_macro]

\* ------------------------------------------------------------- environment
\* Env::new
Env_new == << <<>> >>

\* Env::push_scope
push_scope(vs) == Append(vs, <<>>)

\* Env::pop_scope
pop_scope(vs) == IF vs = <<>> THEN vs ELSE Front(vs)

\* A set that searches outward: it writes the innermost scope that already
\* binds the key, and the last scope when none does.
env_set_outward(vs, key, value) ==
    LET hits == {i \in 1..Len(vs) : key \in DOMAIN vs[i]}
        at == IF hits = {} THEN Len(vs) ELSE CHOOSE i \in hits : \A j \in hits : j <= i
    IN IF vs = <<>> THEN vs ELSE [vs EXCEPT ![at] = (key :> value) @@ vs[at]]

\* Env::set: insert into the last scope
env_set(vs, key, value) ==
    IF vs = <<>> THEN vs
    ELSE [vs EXCEPT ![Len(vs)] = (key :> value) @@ vs[Len(vs)]]

\* A global that writes the last scope instead of the first.
env_global_topmost(vs, key, value) ==
    IF vs = <<>> THEN vs
    ELSE [vs EXCEPT ![Len(vs)] = (key :> value) @@ vs[Len(vs)]]

\* Env::global: insert into the first scope
env_global(vs, key, value) ==
    IF vs = <<>> THEN vs
    ELSE [vs EXCEPT ![1] = (key :> value) @@ vs[1]]

\* A resolve that scans the scopes outermost to innermost and returns the first
\* hit.
env_resolve_outermost(vs, key) ==
    LET hits == {i \in 1..Len(vs) : key \in DOMAIN vs[i]}
    IN IF hits = {} THEN None
       ELSE LET i == CHOOSE i \in hits : \A j \in hits : i <= j
            IN Some(vs[i][key])

\* A resolve that sees the last scope and the first one only, as if a body ran
\* in a scope whose parent is the global scope.
env_resolve_lexical(vs, key) ==
    IF vs # <<>> /\ key \in DOMAIN vs[Len(vs)] THEN Some(vs[Len(vs)][key])
    ELSE IF vs # <<>> /\ key \in DOMAIN vs[1] THEN Some(vs[1][key])
    ELSE None

\* Env::resolve: the innermost scope holding the key
env_resolve(vs, key) ==
    LET hits == {i \in 1..Len(vs) : key \in DOMAIN vs[i]}
    IN IF hits = {} THEN None
       ELSE LET i == CHOOSE i \in hits : \A j \in hits : j <= i
            IN Some(vs[i][key])

\* ----------------------------------------------------------- serialization
Digits == <<"0", "1", "2", "3", "4", "5", "6", "7", "8", "9">>

RECURSIVE NatStr(_)
NatStr(n) == IF n < 10 THEN <<Digits[n + 1]>> ELSE NatStr(n \div 10) \o <<Digits[(n % 10) + 1]>>

\* f64::to_string of an integer-valued number
NumStr(n) == IF n < 0 THEN <<"-">> \o NatStr(0 - n) ELSE NatStr(n)

\* impl Display for SpecialForm
sf_name(sf) ==
    CASE sf = "Def" -> n_def
      [] sf = "Set" -> n_set
      [] sf = "If" -> n_if
      [] sf = "Let" -> n_let
      [] sf = "Begin" -> n_begin
      [] sf = "Quote" -> n_quote

\* Symbols::serialize_param_list
serialize_param_list(sy, pos, rst) ==
    LET pos_str == JoinWith([i \in 1..Len(pos) |-> name_of(sy, pos[i])], <<" ">>)
        rest_str == IF rst.t = "Some"
                    THEN <<" ">> \o n_rest_marker \o <<" ">> \o name_of(sy, rst.x)
                    ELSE <<>>
    IN <<"(">> \o pos_str \o rest_str \o <<")">>

RECURSIVE serialize_object(_, _)
\* Symbols::serialize_object, with form_to_string (join by one space) inlined
serialize_object(sy, obj) ==
    CASE obj.t = "Symbol" -> name_of(sy, obj.sym)
      [] obj.t = "List" ->
            <<"(">> \o JoinWith([i \in 1..Len(obj.l) |-> serialize_object(sy, obj.l[i])], <<" ">>)
                    \o <<")">>
      [] obj.t = "Macro" ->
            <<"m", "a", "c", "r", "o", " ">> \o serialize_param_list(sy, obj.pos, obj.rest)
                \o JoinWith([i \in 1..Len(obj.forms) |-> serialize_object(sy, obj.forms[i])], <<" ">>)
      [] obj.t = "Lambda" ->
            <<"(", "f", "n", " ">> \o serialize_param_list(sy, obj.pos, obj.rest) \o <<" ">>
                \o JoinWith([i \in 1..Len(obj.forms) |-> serialize_object(sy, obj.forms[i])], <<" ">>)
                \o <<")">>
      [] obj.t = "Bool" -> IF obj.b THEN <<"#", "t">> ELSE <<"#", "f">>
      [] obj.t = "SpecialForm" -> sf_name(obj.sf)
      [] obj.t = "String" -> <<"\"">> \o obj.str \o <<"\"">>
      [] obj.t = "Number" -> NumStr(obj.n)
      [] obj.t = "Native" ->
            <<"(", "~", "~", " ">> \o serialize_param_list(sy, obj.pos, obj.rest)
                                   \o <<" ", "~", "~", ")">>

\* -------------------------------------------------------------- EvalError
\* EvalError::new
EvalError_new(message) == [message |-> message, trace |-> <<>>, frames |-> <<>>]

\* EvalError::trace
trace(e, index) == [e EXCEPT !.trace = Append(e.trace, index)]

\* A frame that keeps the current trace instead of resetting it.
frame_keep_trace(e, expr, place) ==
    [e EXCEPT !.frames = Append(e.frames, [form |-> expr, trace |-> e.trace, place |-> place])]

\* EvalError::frame, with the display label of the interpreter.rs call sites
frame(e, expr, place) ==
    [e EXCEPT !.frames = Append(e.frames, [form |-> expr, trace |-> e.trace, place |-> place]),
              !.trace = <<>>]

\* A def_frame that records no frame for the definition.
def_frame_dropped(sy, e, expr, head_sym) == e

\* EvalError::def_frame: the frame of a function definition, labelled with the
\* name of the head symbol when the head was a bare symbol
def_frame(sy, e, expr, head_sym) ==
    frame(e, expr, IF head_sym.t = "Some" THEN name_of(sy, head_sym.x) ELSE <<>>)

\* exc.rs, and the messages of lisp_object.rs / interpreter.rs: a message is its
\* fixed text and the value it interpolates
Msg(text, arg) == <<text, arg>>
apply_unimpl == EvalError_new(Msg("apply only implemented for Native, Lambda and Special Form", <<>>))
apply_empty == EvalError_new(Msg("apply received empty form", <<>>))
\* An unbound_symbol that never names the symbol.
unbound_symbol_anonymous(name) == EvalError_new(Msg("Unbound symbol", n_uninterned))

unbound_symbol(name) ==
    EvalError_new(Msg("Unbound symbol", IF name.t = "Some" THEN name.x ELSE n_uninterned))
unexpected_special_form ==
    EvalError_new(Msg("Unexpected special form. This is probably an internal error.", <<>>))

\* Result<_, EvalError>
Ok(v) == [k |-> "Ok", v |-> v]
Err(e) == [k |-> "Err", e |-> e]

\* An as_bool that takes true for false and false for true.
as_bool_negated(o) == IF o.t = "Bool" THEN Ok(~o.b) ELSE Err(EvalError_new(Msg("Expected a bool", <<>>)))

\* LispObject::as_bool / as_number / as_symbol / as_list
as_bool(o) == IF o.t = "Bool" THEN Ok(o.b) ELSE Err(EvalError_new(Msg("Expected a bool", <<>>)))
as_number(o) == IF o.t = "Number" THEN Ok(o.n) ELSE Err(EvalError_new(Msg("Expected a number", <<>>)))
as_symbol(o) == IF o.t = "Symbol" THEN Ok(o.sym) ELSE Err(EvalError_new(Msg("Expected a symbol", <<>>)))
as_list(o) == IF o.t = "List" THEN Ok(o.l) ELSE Err(EvalError_new(Msg("Expected a list", <<>>)))

\* Result::ok
ok(r) == IF r.k = "Ok" THEN Some(r.v) ELSE None

\* lisp_object_util: as_numbers / as_symbols stop at the first element that is
\* not of the kind and report its index
first_not(objects, kind) ==
    LET bad == {i \in 1..Len(objects) : objects[i].t # kind}
    IN IF bad = {} THEN 0 ELSE CHOOSE i \in bad : \A j \in bad : i <= j

as_numbers(objects) ==
    LET i == first_not(objects, "Number")
    IN IF i = 0 THEN Ok([j \in 1..Len(objects) |-> objects[j].n])
       ELSE [k |-> "Err", e |-> as_number(objects[i]).e, index |-> i - 1]

as_symbols(objects) ==
    LET i == first_not(objects, "Symbol")
    IN IF i = 0 THEN Ok([j \in 1..Len(objects) |-> objects[j].sym])
       ELSE [k |-> "Err", e |-> as_symbol(objects[i]).e, index |-> i - 1]

\* lisp_object_util: assert_args(Match::Exact | Match::Min, ..)
assert_args(m, form, len, description) ==
    LET actual_len == Len(form)
    IN IF m = "Exact"
       THEN IF actual_len # len
            THEN Err(EvalError_new(Msg("requires exactly", <<description, len, actual_len>>)))
            ELSE Ok(None)
       ELSE IF actual_len < len
            THEN Err(EvalError_new(Msg("requires at least", <<description, len, actual_len>>)))
            ELSE Ok(None)

\* ----------------------------------------------------------------- natives
RECURSIVE SumSeq(_)
SumSeq(ns) == IF ns = <<>> THEN 0 ELSE Head(ns) + SumSeq(Tail(ns))

RECURSIVE ProdSeq(_)
ProdSeq(ns) == IF ns = <<>> THEN 1 ELSE Head(ns) * ProdSeq(Tail(ns))

\* A native that indexes out of bounds panics: the process aborts.
Panic(why) == [k |-> "Abort", why |-> why]

\* native.rs add
add(args) ==
    LET terms == as_list(args[1])
    IN IF terms.k = "Err" THEN terms
       ELSE LET ns == as_numbers(terms.v)
            IN IF ns.k = "Ok" THEN Ok(Number(SumSeq(ns.v)))
               ELSE Err(trace(ns.e, ns.index + 1))

\* native.rs multiply
multiply(args) ==
    LET factors == as_list(args[1])
    IN IF factors.k = "Err" THEN factors
       ELSE LET ns == as_numbers(factors.v)
            IN IF ns.k = "Ok" THEN Ok(Number(ProdSeq(ns.v)))
               ELSE Err(trace(ns.e, ns.index + 1))

\* native.rs subtract
subtract(args) ==
    LET min == as_number(args[1])
    IN IF min.k = "Err" THEN Err(trace(min.e, 1))
       ELSE LET subs == as_list(args[2])
            IN IF subs.k = "Err" THEN subs
               ELSE LET ns == as_numbers(subs.v)
                    IN IF ns.k = "Ok" THEN Ok(Number(min.v - SumSeq(ns.v)))
                       ELSE Err(trace(ns.e, ns.index + 2))

\* native.rs equal
equal(args) ==
    CASE args[1].t = "Number" ->
            LET op1 == as_number(args[2])
            IN IF op1.k = "Err" THEN Err(trace(op1.e, 2))
               ELSE Ok(Bool(args[1].n = op1.v))
      [] args[1].t = "Symbol" ->
            LET op1 == as_symbol(args[2])
            IN IF op1.k = "Err" THEN Err(trace(op1.e, 2))
               ELSE Ok(Bool(args[1].sym = op1.v))
      [] OTHER -> Err(trace(EvalError_new(Msg("equal not implemented for type", <<>>)), 1))

\* native.rs first: lst[0] of an empty list is out of bounds
first(args) ==
    LET lst == as_list(args[1])
    IN IF lst.k = "Err" THEN lst
       ELSE IF lst.v = <<>> THEN Panic("index out of bounds")
       ELSE Ok(lst.v[1])

\* native.rs rest
rest(args) ==
    LET lst == as_list(args[1])
    IN IF lst.k = "Err" THEN lst
       ELSE Ok(List(IF Len(lst.v) > 0 THEN Tail(lst.v) ELSE <<>>))

\* the call func(&args[..]) through the function pointer of a Native
call_native(f, args) ==
    CASE f = "add" -> add(args)
      [] f = "multiply" -> multiply(args)
      [] f = "subtract" -> subtract(args)
      [] f = "equal" -> equal(args)
      [] f = "first" -> first(args)
      [] f = "rest" -> rest(args)

\* --------------------------------------------------------------- evaluator
\* The interpreter state an evaluation threads through: the scope stack
\* (Env.vars), whether the build checks integer overflow (debug_assertions),
\* and an observation log of the calls made (not program state).
Observe(st, ev) == [st EXCEPT !.log = Append(@, ev)]

\* Result of an evaluation step together with the state it leaves.
R_ok(v, st) == [k |-> "Ok", v |-> v, st |-> st]
R_err(e, st) == [k |-> "Err", e |-> e, st |-> st]
\* Result<_, (EvalError, bool)> and Result<_, (EvalError, usize)>
R_err2(e, x, st) == [k |-> "Err", e |-> e, x |-> x, st |-> st]
\* a panic or a host stack overflow: the process is gone
R_abort(why, st) == [k |-> "Abort", why |-> why, st |-> st]

\* interpreter.rs split_param_list: lst.len() - 2 is a usize subtraction, which
\* panics in a build that checks overflow and wraps otherwise
split_param_list(lst, rest_index, checks) ==
    IF rest_index.t = "None" THEN [k |-> "Ok", params |-> lst, rest |-> None]
    ELSE IF Len(lst) < 2 /\ checks THEN Panic("attempt to subtract with overflow")
    ELSE IF Len(lst) >= 2 /\ rest_index.x = Len(lst) - 2
         THEN [k |-> "Ok", params |-> SubSeq(lst, 1, rest_index.x),
               rest |-> Some(lst[rest_index.x + 2])]
         ELSE Err(trace(EvalError_new(Msg("&rest must be second to last in parameter list", <<>>)),
                        rest_index.x))

\* Interpreter::parse_param_list
parse_param_list(sy, lst, checks) ==
    LET params == as_symbols(lst)
    IN IF params.k = "Err" THEN Err(trace(params.e, params.index))
       ELSE LET hits == {i \in 1..Len(params.v) : params.v[i] = sym_rest(sy)}
                rest_index == IF hits = {} THEN None
                              ELSE Some((CHOOSE i \in hits : \A j \in hits : i <= j) - 1)
            IN split_param_list(params.v, rest_index, checks)

\* Interpreter::parse_function_def
parse_function_def(sy, lst, checks) ==
    LET a == assert_args("Min", lst, 2, "fn definition")
    IN IF a.k = "Err" THEN a
       ELSE IF ~(lst[1].t = "Symbol" /\ lst[1].sym \in {sym_fn(sy), sym_macro(sy)})
       THEN Err(trace(EvalError_new(Msg("Expected fn or macro symbol, got",
                                        serialize_object(sy, lst[1]))), 0))
       ELSE LET param_list == as_list(lst[2])
            IN IF param_list.k = "Err" THEN Err(trace(param_list.e, 1))
               ELSE LET p == parse_param_list(sy, param_list.v, checks)
                    IN IF p.k = "Abort" THEN p
                       ELSE IF p.k = "Err" THEN Err(trace(p.e, 1))
                       ELSE [k |-> "Ok", params |-> p.params, rest |-> p.rest,
                             forms |-> SubSeq(lst, 3, Len(lst)),
                             is_macro |-> (lst[1].sym = sym_macro(sy))]

\* A zip that hands the rest symbol every argument, the positional ones too.
zip_binding_rest_all(pos, rst, args) ==
    LET syms == IF rst.t = "Some" THEN Append(pos, rst.x) ELSE pos
        vals == IF rst.t = "Some" THEN Append(SubSeq(args, 1, Len(pos)), List(args)) ELSE args
        len == IF Len(syms) < Len(vals) THEN Len(syms) ELSE Len(vals)
    IN [i \in 1..len |-> <<syms[i], vals[i]>>]

\* the pairs (symbol, value) bind_param_list returns: zip of the parameter
\* symbols with the arguments, the rest symbol taking the split-off tail
zip_binding(pos, rst, args) ==
    LET n == Len(pos)
        syms == IF rst.t = "Some" THEN Append(pos, rst.x) ELSE pos
        vals == IF rst.t = "Some"
                THEN Append(SubSeq(args, 1, n), List(SubSeq(args, n + 1, Len(args))))
                ELSE args
        len == IF Len(syms) < Len(vals) THEN Len(syms) ELSE Len(vals)
    IN [i \in 1..len |-> <<syms[i], vals[i]>>]

RECURSIVE set_all(_, _)
\* eval_body: b.into_iter().for_each(|(sym, value)| self.env.set(sym, value))
set_all(vs, binding) ==
    IF binding = <<>> THEN vs
    ELSE set_all(env_set(vs, Head(binding)[1], Head(binding)[2]), Tail(binding))

\* The methods of Interpreter that evaluate call one another; in their bodies
\* below such a call f(x, ..) is written Call("f", <<x, ..>>). A result that is
\* examined several times is bound as the parameter of a local operator
\* (LET on_r(r) == .. IN on_r(Call(..))), the let r = ..; of the source.
RECURSIVE Call(_, _)

\* An eval_seq that evaluates the objects from the last index down to the
\* first, the values still collected in index order.
eval_seq_reversed(sy, objects, i, acc, st, fuel) ==
    IF i > Len(objects) THEN R_ok(acc, st)
    ELSE LET j == Len(objects) + 1 - i
             on_r(r) ==
                 IF r.k = "Abort" THEN r
                 ELSE IF r.k = "Err" THEN R_err2(r.e, j - 1, r.st)
                 ELSE Call("eval_seq", <<sy, objects, i + 1, <<r.v>> \o acc, r.st, fuel>>)
         IN on_r(Call("eval", <<sy, objects[j], st, fuel>>))

\* objects.iter().enumerate().map(|(index, object)| self.eval(object)..)
\*     .collect::<Result<Vec<_>, _>>(): in index order, stopping at the first
\* error, whose index is reported to the caller's map_err
eval_seq(sy, objects, i, acc, st, fuel) ==
    IF i > Len(objects) THEN R_ok(acc, st)
    ELSE LET on_r(r) ==
                 IF r.k = "Abort" THEN r
                 ELSE IF r.k = "Err" THEN R_err2(r.e, i - 1, r.st)
                 ELSE Call("eval_seq", <<sy, objects, i + 1, Append(acc, r.v), r.st, fuel>>)
         IN on_r(Call("eval", <<sy, objects[i], st, fuel>>))

\* A bind_param_list that evaluates the arguments before it checks their
\* number.
bind_param_list_eval_first(sy, pos, rst, tail, eval_args, st, fuel) ==
    LET m == IF rst.t = "None" THEN "Exact" ELSE "Min"
        on_a(a, args) ==
            IF args.k = "Abort" THEN args
            ELSE IF a.k = "Err" THEN R_err2(trace(a.e, 1), TRUE, args.st)
            ELSE IF args.k = "Err" THEN R_err2(trace(args.e, args.x + 1), FALSE, args.st)
            ELSE R_ok(zip_binding(pos, rst, args.v), args.st)
    IN on_a(assert_args(m, tail, Len(pos),
                        <<"param list", serialize_param_list(sy, pos, rst)>>),
            IF eval_args THEN Call("eval_seq", <<sy, tail, 1, <<>>, st, fuel>>)
            ELSE R_ok(tail, st))

\* A bind_param_list that evaluates the arguments of a macro as well.
bind_param_list_eval_always(sy, pos, rst, tail, eval_args, st, fuel) ==
    LET m == IF rst.t = "None" THEN "Exact" ELSE "Min"
        on_args(args) ==
            IF args.k = "Abort" THEN args
            ELSE IF args.k = "Err" THEN R_err2(trace(args.e, args.x + 1), FALSE, args.st)
            ELSE R_ok(zip_binding(pos, rst, args.v), args.st)
        on_a(a) ==
            IF a.k = "Err" THEN R_err2(trace(a.e, 1), TRUE, st)
            ELSE on_args(Call("eval_seq", <<sy, tail, 1, <<>>, st, fuel>>))
    IN on_a(assert_args(m, tail, Len(pos),
                        <<"param list", serialize_param_list(sy, pos, rst)>>))

\* Interpreter::bind_param_list
bind_param_list(sy, pos, rst, tail, eval_args, st, fuel) ==
    LET m == IF rst.t = "None" THEN "Exact" ELSE "Min"
        on_args(args) ==
            IF args.k = "Abort" THEN args
            ELSE IF args.k = "Err" THEN R_err2(trace(args.e, args.x + 1), FALSE, args.st)
            ELSE R_ok(zip_binding(pos, rst, args.v), args.st)
        on_a(a) ==
            IF a.k = "Err" THEN R_err2(trace(a.e, 1), TRUE, st)
            ELSE IF eval_args
            THEN on_args(Call("eval_seq", <<sy, tail, 1, <<>>, st, fuel>>))
            ELSE R_ok(zip_binding(pos, rst, tail), st)
    IN on_a(assert_args(m, tail, Len(pos),
                        <<"param list", serialize_param_list(sy, pos, rst)>>))

\* An eval_body that leaves its scope on the stack when a form of the body
\* fails.
eval_body_keep_scope_on_error(sy, binding, forms, st, fuel) ==
    LET pushed == set_all(push_scope(st.vars), binding)
        entered == Observe([st EXCEPT !.vars = pushed], [ev |-> "body", vars |-> pushed])
        popped(s) == [s EXCEPT !.vars = pop_scope(s.vars)]
        on_r(r) ==
            IF r.k = "Abort" THEN r
            ELSE IF r.k = "Err" THEN R_err2(r.e, r.x, r.st)
            ELSE R_ok(IF r.v = <<>> THEN List(<<>>) ELSE Last(r.v), popped(r.st))
    IN on_r(Call("eval_seq", <<sy, forms, 1, <<>>, entered, fuel>>))

\* Interpreter::eval_body
eval_body(sy, binding, forms, st, fuel) ==
    LET pushed == set_all(push_scope(st.vars), binding)
        entered == Observe([st EXCEPT !.vars = pushed], [ev |-> "body", vars |-> pushed])
        popped(s) == [s EXCEPT !.vars = pop_scope(s.vars)]
        on_r(r) ==
            IF r.k = "Abort" THEN r
            ELSE IF r.k = "Err" THEN R_err2(r.e, r.x, popped(r.st))
            ELSE R_ok(IF r.v = <<>> THEN List(<<>>) ELSE Last(r.v), popped(r.st))
    IN on_r(Call("eval_seq", <<sy, forms, 1, <<>>, entered, fuel>>))

\* An eval_form that returns the result of a macro's body as it is, without
\* evaluating it.
eval_form_no_second_eval(sy, lst, tail, st, fuel) ==
    LET on_fd(fd) ==
            IF fd.k = "Abort" THEN R_abort(fd.why, st)
            ELSE IF fd.k = "Err" THEN R_err2(fd.e, TRUE, st)
            ELSE
            LET on_result(result) ==
                    IF result.k = "Abort" THEN result
                    ELSE IF result.k = "Err"
                    THEN R_err2(trace(result.e, result.x + 2), TRUE, result.st)
                    ELSE result
                on_b(b) ==
                    IF b.k # "Ok" THEN b
                    ELSE on_result(Call("eval_body",
                                        <<sy, b.v, fd.forms,
                                          Observe(b.st, [ev |-> "call", is_macro |-> fd.is_macro,
                                                         binding |-> b.v, vars |-> st.vars]),
                                          fuel>>))
            IN on_b(Call("bind_param_list",
                         <<sy, fd.params, fd.rest, tail, ~fd.is_macro, st, fuel>>))
    IN on_fd(parse_function_def(sy, lst, st.checks))

\* Interpreter::eval_form
eval_form(sy, lst, tail, st, fuel) ==
    LET on_fd(fd) ==
            IF fd.k = "Abort" THEN R_abort(fd.why, st)
            ELSE IF fd.k = "Err" THEN R_err2(fd.e, TRUE, st)
            ELSE
            LET on_r2(result, r2) ==
                    IF r2.k = "Abort" THEN r2
                    ELSE IF r2.k = "Err"
                    THEN R_err2(trace(frame(r2.e, result.v, <<"~", ">">>), 0), TRUE, r2.st)
                    ELSE R_ok(r2.v, Observe(r2.st, [ev |-> "expanded", v |-> r2.v]))
                on_result(result) ==
                    IF result.k = "Abort" THEN result
                    ELSE IF result.k = "Err"
                    THEN R_err2(trace(result.e, result.x + 2), TRUE, result.st)
                    ELSE IF fd.is_macro
                    THEN on_r2(result,
                               Call("eval", <<sy, result.v,
                                              Observe(result.st,
                                                      [ev |-> "expand", form |-> result.v,
                                                       vars |-> result.st.vars]),
                                              fuel>>))
                    ELSE result
                on_b(b) ==
                    IF b.k # "Ok" THEN b
                    ELSE on_result(Call("eval_body",
                                        <<sy, b.v, fd.forms,
                                          Observe(b.st, [ev |-> "call", is_macro |-> fd.is_macro,
                                                         binding |-> b.v, vars |-> st.vars]),
                                          fuel>>))
            IN on_b(Call("bind_param_list",
                         <<sy, fd.params, fd.rest, tail, ~fd.is_macro, st, fuel>>))
    IN on_fd(parse_function_def(sy, lst, st.checks))

\* A let whose binding expressions see the symbols bound by the earlier pairs
\* of the same let.
eval_let_bindings_sequential(sy, bfs, i, acc, st, fuel) ==
    IF i > Len(bfs) THEN R_ok(acc, st)
    ELSE
    LET inner == [st EXCEPT !.vars = set_all(push_scope(st.vars), acc)]
        outer(s) == [s EXCEPT !.vars = pop_scope(s.vars)]
        on_v(s, v) ==
            IF v.k = "Abort" THEN v
            ELSE IF v.k = "Err"
            THEN R_err(trace(trace(trace(v.e, 1), i - 1), 1), outer(v.st))
            ELSE Call("eval_let_bindings",
                      <<sy, bfs, i + 1, Append(acc, <<s.v, v.v>>), outer(v.st), fuel>>)
        on_s(b, s) ==
            IF s.k = "Err" THEN R_err(trace(trace(trace(s.e, 0), i - 1), 1), st)
            ELSE IF Len(b.v) < 2 THEN R_abort("index out of bounds", st)
            ELSE on_v(s, Call("eval", <<sy, b.v[2], inner, fuel>>))
        on_b(b) ==
            IF b.k = "Err" THEN R_err(trace(trace(b.e, i - 1), 1), st)
            ELSE IF b.v = <<>> THEN R_abort("index out of bounds", st)
            ELSE on_s(b, as_symbol(b.v[1]))
    IN on_b(as_list(bfs[i]))

\* the binding closure of the Let arm of eval_special_form, applied to the
\* binding forms in index order and stopping at the first error
eval_let_bindings(sy, bfs, i, acc, st, fuel) ==
    IF i > Len(bfs) THEN R_ok(acc, st)
    ELSE
    LET on_v(s, v) ==
            IF v.k = "Abort" THEN v
            ELSE IF v.k = "Err" THEN R_err(trace(trace(trace(v.e, 1), i - 1), 1), v.st)
            ELSE Call("eval_let_bindings",
                      <<sy, bfs, i + 1, Append(acc, <<s.v, v.v>>), v.st, fuel>>)
        on_s(b, s) ==
            IF s.k = "Err" THEN R_err(trace(trace(trace(s.e, 0), i - 1), 1), st)
            ELSE IF Len(b.v) < 2 THEN R_abort("index out of bounds", st)
            ELSE on_v(s, Call("eval", <<sy, b.v[2], st, fuel>>))
        on_b(b) ==
            IF b.k = "Err" THEN R_err(trace(trace(b.e, i - 1), 1), st)
            ELSE IF b.v = <<>> THEN R_abort("index out of bounds", st)
            ELSE on_s(b, as_symbol(b.v[1]))
    IN on_b(as_list(bfs[i]))

\* the last value of a sequence of forms evaluated in order, an error traced
\* at base + its index
eval_last(r, base) ==
    IF r.k = "Abort" THEN r
    ELSE IF r.k = "Err" THEN R_err(trace(r.e, r.x + base), r.st)
    ELSE R_ok(Last(r.v), r.st)

\* the Def and Set arms of eval_special_form after the value was evaluated:
\* the value is stored by store and returned
eval_store(value, vars_after) ==
    IF value.k = "Abort" THEN value
    ELSE IF value.k = "Err" THEN R_err(trace(value.e, 2), value.st)
    ELSE R_ok(value.v, [value.st EXCEPT !.vars = vars_after])

\* The Def and Set arms of a def and a set that write before they look at the
\* result of the evaluation: a failed value is stored as the empty list.
eval_store_failed(value, vars_after) ==
    IF value.k = "Abort" THEN value
    ELSE IF value.k = "Err" THEN R_err(trace(value.e, 2), [value.st EXCEPT !.vars = vars_after])
    ELSE R_ok(value.v, [value.st EXCEPT !.vars = vars_after])

\* An eval_special_form whose def and set bind the symbol although the
\* evaluation of the value failed.
eval_special_form_store_nil(sy, sf, tail, st, fuel) ==
    CASE sf = "Quote" ->
            LET on_a(a) == IF a.k = "Err" THEN R_err(a.e, st) ELSE R_ok(tail[1], st)
            IN on_a(assert_args("Exact", tail, 1, "special form quote"))
      [] sf = "Begin" ->
            LET on_a(a) ==
                    IF a.k = "Err" THEN R_err(a.e, st)
                    ELSE eval_last(Call("eval_seq", <<sy, tail, 1, <<>>, st, fuel>>), 1)
            IN on_a(assert_args("Min", tail, 1, "special form begin"))
      [] sf = "Def" ->
            LET on_value(value) ==
                    eval_store_failed(value, env_global(value.st.vars, tail[1].sym,
                                                        IF value.k = "Ok" THEN value.v
                                                        ELSE List(<<>>)))
                on_a(a) ==
                    IF a.k = "Err" THEN R_err(a.e, st)
                    ELSE IF tail[1].t = "Symbol"
                    THEN on_value(Call("eval", <<sy, tail[2], st, fuel>>))
                    ELSE R_err(trace(EvalError_new(
                            Msg("special form def must have a symbol in 1st place", <<>>)), 1), st)
            IN on_a(assert_args("Exact", tail, 2, "special form def"))
      [] sf = "Set" ->
            LET on_value(value) ==
                    eval_store_failed(value, env_set(value.st.vars, tail[1].sym,
                                                     IF value.k = "Ok" THEN value.v
                                                     ELSE List(<<>>)))
                on_a(a) ==
                    IF a.k = "Err" THEN R_err(a.e, st)
                    ELSE IF tail[1].t = "Symbol"
                    THEN on_value(Call("eval", <<sy, tail[2], st, fuel>>))
                    ELSE R_err(trace(EvalError_new(
                            Msg("special form set must have a symbol in 1st place", <<>>)), 1), st)
            IN on_a(assert_args("Exact", tail, 2, "special form set"))
      [] sf = "If" ->
            LET on_then(r) == IF r.k = "Err" THEN R_err(trace(r.e, 2), r.st) ELSE r
                on_predicate(p, predicate) ==
                    IF predicate.k = "Err" THEN R_err(trace(predicate.e, 1), p.st)
                    ELSE IF predicate.v
                    THEN on_then(Call("eval", <<sy, tail[2], p.st, fuel>>))
                    ELSE IF Len(tail) = 2 THEN R_ok(Bool(FALSE), p.st)
                    ELSE eval_last(Call("eval_seq", <<sy, SubSeq(tail, 3, Len(tail)), 1, <<>>,
                                                      p.st, fuel>>), 3)
                on_p(p) ==
                    IF p.k = "Abort" THEN p
                    ELSE IF p.k = "Err" THEN R_err(trace(p.e, 1), p.st)
                    ELSE on_predicate(p, as_bool(p.v))
                on_a(a) ==
                    IF a.k = "Err" THEN R_err(a.e, st)
                    ELSE on_p(Call("eval", <<sy, tail[1], st, fuel>>))
            IN on_a(assert_args("Min", tail, 2, "special form if"))
      [] sf = "Let" ->
            LET on_r(r) == IF r.k = "Err" THEN R_err(trace(r.e, r.x + 2), r.st) ELSE r
                on_binding(binding) ==
                    IF binding.k # "Ok" THEN binding
                    ELSE on_r(Call("eval_body",
                                   <<sy, binding.v, Tail(tail), binding.st, fuel>>))
                on_binding_forms(binding_forms) ==
                    IF binding_forms.k = "Err" THEN R_err(trace(binding_forms.e, 1), st)
                    ELSE on_binding(Call("eval_let_bindings",
                                         <<sy, binding_forms.v, 1, <<>>, st, fuel>>))
                on_a(a) ==
                    IF a.k = "Err" THEN R_err(a.e, st)
                    ELSE on_binding_forms(as_list(tail[1]))
            IN on_a(assert_args("Min", tail, 2, "special form let"))

\* Interpreter::eval_special_form
eval_special_form(sy, sf, tail, st, fuel) ==
    CASE sf = "Quote" ->
            LET on_a(a) == IF a.k = "Err" THEN R_err(a.e, st) ELSE R_ok(tail[1], st)
            IN on_a(assert_args("Exact", tail, 1, "special form quote"))
      [] sf = "Begin" ->
            LET on_a(a) ==
                    IF a.k = "Err" THEN R_err(a.e, st)
                    ELSE eval_last(Call("eval_seq", <<sy, tail, 1, <<>>, st, fuel>>), 1)
            IN on_a(assert_args("Min", tail, 1, "special form begin"))
      [] sf = "Def" ->
            LET on_value(value) ==
                    eval_store(value, IF value.k = "Ok"
                                      THEN env_global(value.st.vars, tail[1].sym, value.v)
                                      ELSE <<>>)
                on_a(a) ==
                    IF a.k = "Err" THEN R_err(a.e, st)
                    ELSE IF tail[1].t = "Symbol"
                    THEN on_value(Call("eval", <<sy, tail[2], st, fuel>>))
                    ELSE R_err(trace(EvalError_new(
                            Msg("special form def must have a symbol in 1st place", <<>>)), 1), st)
            IN on_a(assert_args("Exact", tail, 2, "special form def"))
      [] sf = "Set" ->
            LET on_value(value) ==
                    eval_store(value, IF value.k = "Ok"
                                      THEN env_set(value.st.vars, tail[1].sym, value.v)
                                      ELSE <<>>)
                on_a(a) ==
                    IF a.k = "Err" THEN R_err(a.e, st)
                    ELSE IF tail[1].t = "Symbol"
                    THEN on_value(Call("eval", <<sy, tail[2], st, fuel>>))
                    ELSE R_err(trace(EvalError_new(
                            Msg("special form set must have a symbol in 1st place", <<>>)), 1), st)
            IN on_a(assert_args("Exact", tail, 2, "special form set"))
      [] sf = "If" ->
            LET on_then(r) == IF r.k = "Err" THEN R_err(trace(r.e, 2), r.st) ELSE r
                on_predicate(p, predicate) ==
                    IF predicate.k = "Err" THEN R_err(trace(predicate.e, 1), p.st)
                    ELSE IF predicate.v
                    THEN on_then(Call("eval", <<sy, tail[2], p.st, fuel>>))
                    ELSE IF Len(tail) = 2 THEN R_ok(Bool(FALSE), p.st)
                    ELSE eval_last(Call("eval_seq", <<sy, SubSeq(tail, 3, Len(tail)), 1, <<>>,
                                                      p.st, fuel>>), 3)
                on_p(p) ==
                    IF p.k = "Abort" THEN p
                    ELSE IF p.k = "Err" THEN R_err(trace(p.e, 1), p.st)
                    ELSE on_predicate(p, as_bool(p.v))
                on_a(a) ==
                    IF a.k = "Err" THEN R_err(a.e, st)
                    ELSE on_p(Call("eval", <<sy, tail[1], st, fuel>>))
            IN on_a(assert_args("Min", tail, 2, "special form if"))
      [] sf = "Let" ->
            LET on_r(r) == IF r.k = "Err" THEN R_err(trace(r.e, r.x + 2), r.st) ELSE r
                on_binding(binding) ==
                    IF binding.k # "Ok" THEN binding
                    ELSE on_r(Call("eval_body",
                                   <<sy, binding.v, Tail(tail), binding.st, fuel>>))
                on_binding_forms(binding_forms) ==
                    IF binding_forms.k = "Err" THEN R_err(trace(binding_forms.e, 1), st)
                    ELSE on_binding(Call("eval_let_bindings",
                                         <<sy, binding_forms.v, 1, <<>>, st, fuel>>))
                on_a(a) ==
                    IF a.k = "Err" THEN R_err(a.e, st)
                    ELSE on_binding_forms(as_list(tail[1]))
            IN on_a(assert_args("Min", tail, 2, "special form let"))

\* An eval that takes a Native value for a form it cannot evaluate, as it does
\* a SpecialForm value.
eval_native_unexpected(sy, object, st, fuel) ==
    IF fuel = 0 THEN R_abort("stack overflow", st)
    ELSE
    CASE object.t = "List" ->
            IF Len(object.l) = 0 THEN R_err(apply_empty, st)
            ELSE
            LET l == object.l
                tail == Tail(object.l)
                on_native(b, r) ==
                    IF r.k = "Abort" THEN R_abort(r.why, b.st)
                    ELSE IF r.k = "Err" THEN R_err(r.e, b.st)
                    ELSE R_ok(r.v, b.st)
                on_b(head, b) ==
                    IF b.k = "Abort" THEN b
                    ELSE IF b.k = "Err" THEN R_err(b.e, b.st)
                    ELSE on_native(b, call_native(head.f, [i \in 1..Len(b.v) |-> b.v[i][2]]))
                on_form(head, r) ==
                    IF r.k = "Err"
                    THEN IF r.x
                         THEN R_err(trace(def_frame(sy, r.e, head, ok(as_symbol(l[1]))), 0), r.st)
                         ELSE R_err(r.e, r.st)
                    ELSE r
                on_head(h, head) ==
                    CASE head.t = "SpecialForm" ->
                            Call("eval_special_form", <<sy, head.sf, tail, h.st, fuel - 1>>)
                      [] head.t = "Native" ->
                            on_b(head, Call("bind_param_list",
                                            <<sy, head.pos, head.rest, tail, TRUE, h.st,
                                              fuel - 1>>))
                      [] head.t = "List" ->
                            on_form(head, Call("eval_form", <<sy, head.l, tail, h.st, fuel - 1>>))
                      [] OTHER ->
                            R_err(trace(def_frame(sy, apply_unimpl, head, ok(as_symbol(l[1]))), 0),
                                  h.st)
                on_h(h) ==
                    IF h.k = "Abort" THEN h
                    ELSE IF h.k = "Err" THEN R_err(trace(h.e, 0), h.st)
                    ELSE on_head(h, h.v)
            IN on_h(Call("eval", <<sy, l[1], st, fuel - 1>>))
      [] object.t = "Symbol" ->
            LET on_r(r) == IF r.t = "Some" THEN R_ok(r.x, st)
                           ELSE R_err(unbound_symbol(as_string(sy, object.sym)), st)
            IN on_r(env_resolve(st.vars, object.sym))
      [] object.t \in {"String", "Number", "Bool"} -> R_ok(object, st)
      [] object.t \in {"SpecialForm", "Native"} -> R_err(unexpected_special_form, st)

\* Interpreter::eval
eval(sy, object, st, fuel) ==
    IF fuel = 0 THEN R_abort("stack overflow", st)
    ELSE
    CASE object.t = "List" ->
            IF Len(object.l) = 0 THEN R_err(apply_empty, st)
            ELSE
            LET l == object.l
                tail == Tail(object.l)
                on_native(b, r) ==
                    IF r.k = "Abort" THEN R_abort(r.why, b.st)
                    ELSE IF r.k = "Err" THEN R_err(r.e, b.st)
                    ELSE R_ok(r.v, b.st)
                on_b(head, b) ==
                    IF b.k = "Abort" THEN b
                    ELSE IF b.k = "Err" THEN R_err(b.e, b.st)
                    ELSE on_native(b, call_native(head.f, [i \in 1..Len(b.v) |-> b.v[i][2]]))
                on_form(head, r) ==
                    IF r.k = "Err"
                    THEN IF r.x
                         THEN R_err(trace(def_frame(sy, r.e, head, ok(as_symbol(l[1]))), 0), r.st)
                         ELSE R_err(r.e, r.st)
                    ELSE r
                on_head(h, head) ==
                    CASE head.t = "SpecialForm" ->
                            Call("eval_special_form", <<sy, head.sf, tail, h.st, fuel - 1>>)
                      [] head.t = "Native" ->
                            on_b(head, Call("bind_param_list",
                                            <<sy, head.pos, head.rest, tail, TRUE, h.st,
                                              fuel - 1>>))
                      [] head.t = "List" ->
                            on_form(head, Call("eval_form", <<sy, head.l, tail, h.st, fuel - 1>>))
                      [] OTHER ->
                            R_err(trace(def_frame(sy, apply_unimpl, head, ok(as_symbol(l[1]))), 0),
                                  h.st)
                on_h(h) ==
                    IF h.k = "Abort" THEN h
                    ELSE IF h.k = "Err" THEN R_err(trace(h.e, 0), h.st)
                    ELSE on_head(h, h.v)
            IN on_h(Call("eval", <<sy, l[1], st, fuel - 1>>))
      [] object.t = "Symbol" ->
            LET on_r(r) == IF r.t = "Some" THEN R_ok(r.x, st)
                           ELSE R_err(unbound_symbol(as_string(sy, object.sym)), st)
            IN on_r(env_resolve(st.vars, object.sym))
      [] object.t \in {"String", "Number", "Bool", "Native"} -> R_ok(object, st)
      [] object.t = "SpecialForm" -> R_err(unexpected_special_form, st)

\* The call f(a[1], .., a[n]) of one of the methods above
Call(f, a) ==
    CASE f = "eval" -> eval(a[1], a[2], a[3], a[4])
      [] f = "eval_seq" -> eval_seq(a[1], a[2], a[3], a[4], a[5], a[6])
      [] f = "eval_form" -> eval_form(a[1], a[2], a[3], a[4], a[5])
      [] f = "eval_special_form" -> eval_special_form(a[1], a[2], a[3], a[4], a[5])
      [] f = "eval_let_bindings" -> eval_let_bindings(a[1], a[2], a[3], a[4], a[5], a[6])
      [] f = "eval_body" -> eval_body(a[1], a[2], a[3], a[4], a[5])
      [] f = "bind_param_list" -> bind_param_list(a[1], a[2], a[3], a[4], a[5], a[6], a[7])

\* ------------------------------------------------------ error localisation
RECURSIVE handle_failed_form(_, _, _)
RECURSIVE failed_form_loop(_, _, _, _, _, _)
\* the for loop of handle_failed_form over l.iter().enumerate(), from element
\* index (0-based) on, with the accumulators string, start, end
failed_form_loop(sy, l, stack, index, acc, offset) ==
    IF index >= Len(l) THEN acc
    ELSE LET object == l[index + 1]
             sub == handle_failed_form(sy, object, SubSeq(stack, 1, Len(stack) - 1))
             hit == (index = offset)
             pushed == acc.string \o (IF hit THEN sub.string ELSE serialize_object(sy, object))
             closed == pushed \o (IF index = Len(l) - 1 THEN <<")">> ELSE <<" ">>)
         IN failed_form_loop(sy, l, stack, index + 1,
                [string |-> closed,
                 start |-> IF hit THEN sub.start + Len(acc.string) ELSE acc.start,
                 end |-> IF hit THEN sub.end + Len(acc.string) ELSE acc.end],
                offset)

\* err.rs handle_failed_form: (string, start, end)
handle_failed_form(sy, form, stack) ==
    IF Len(stack) = 0
    THEN LET string == serialize_object(sy, form)
         IN [string |-> string, start |-> 0, end |-> Len(string)]
    ELSE IF form.t = "List"
    THEN failed_form_loop(sy, form.l, stack, 0,
                          [string |-> <<"(">>, start |-> 0, end |-> 0], stack[Len(stack)])
    ELSE handle_failed_form(sy, form, <<>>)

\* err.rs handle_eval_error: one located excerpt per frame, in frame order
handle_eval_error(sy, error) ==
    [i \in 1..Len(error.frames) |->
        handle_failed_form(sy, error.frames[i].form, error.frames[i].trace)]

\* ------------------------------------------------------------- construction
\* The two further well-known ids interpreter.rs reads from Symbols.
Symbols_new_fn_macro == intern_all(Symbols_new, <<n_fn, n_macro>>)

\* native.rs: the NativeDef constants create_root registers
NativeDef(name, positional, rst, func) ==
    [name |-> name, positional |-> positional, rest |-> rst, func |-> func]
ADD == NativeDef(<<"+">>, <<>>, Some(<<"t", "e", "r", "m", "s">>), "add")
MULTIPLY == NativeDef(<<"*">>, <<>>, Some(<<"f", "a", "c", "t", "o", "r", "s">>), "multiply")
SUBTRACT == NativeDef(<<"-">>, << <<"m", "i", "n">> >>, Some(<<"s", "u", "b", "s">>), "subtract")
EQUAL == NativeDef(<<"=">>, << <<"o", "1">>, <<"o", "2">> >>, None, "equal")
FIRST == NativeDef(<<"f", "i", "r", "s", "t">>, << <<"l", "s", "t">> >>, None, "first")
REST == NativeDef(<<"r", "e", "s", "t">>, << <<"l", "s", "t">> >>, None, "rest")

\* env.rs set_native: interns the parameters, then the name
set_native(c, def) ==
    LET sy1 == intern_all(c.sy, def.positional)
        pos_args == [i \in 1..Len(def.positional) |-> sy1.registry[def.positional[i]]]
        r == IF def.rest.t = "Some" THEN intern(sy1, def.rest.x) ELSE [sy |-> sy1, id |-> 0]
        rest_arg == IF def.rest.t = "Some" THEN Some(r.id) ELSE None
        nm == intern(r.sy, def.name)
    IN [sy |-> nm.sy, vars |-> env_global(c.vars, nm.id, Native(pos_args, rest_arg, def.func))]

\* env.rs set_special
set_special(c, sf) ==
    LET nm == intern(c.sy, sf_name(sf))
    IN [sy |-> nm.sy, vars |-> env_global(c.vars, nm.id, SpecialForm(sf))]

\* env.rs create_root, for the special forms eval_special_form implements
create_root(sy) ==
    LET c1 == set_special([sy |-> sy, vars |-> Env_new], "Def")
        c2 == set_special(c1, "Set")
        c3 == set_special(c2, "If")
        c4 == set_special(c3, "Let")
        c5 == set_special(c4, "Begin")
        c6 == set_special(c5, "Quote")
        c7 == set_native(c6, ADD)
        c8 == set_native(c7, MULTIPLY)
        c9 == set_native(c8, SUBTRACT)
        c10 == set_native(c9, EQUAL)
        c11 == set_native(c10, FIRST)
    IN set_native(c11, REST)

\* Interpreter::new
Interpreter_new == create_root(Symbols_new_fn_macro)

\* ---------------------------------------------------------------- programs
\* Top-level forms are written with symbol names; reading one interns its
\* symbols in text order (reader.rs, the Symbol token: symbols.symbol(&s)).
RECURSIVE intern_form(_, _)
RECURSIVE intern_forms(_, _, _, _)
intern_forms(sy, l, i, acc) ==
    IF i > Len(l) THEN [sy |-> sy, form |-> List(acc)]
    ELSE LET r == intern_form(sy, l[i])
         IN intern_forms(r.sy, l, i + 1, Append(acc, r.form))
intern_form(sy, nf) ==
    CASE nf.t = "Symbol" -> LET r == intern(sy, nf.sym) IN [sy |-> r.sy, form |-> Symbol(r.id)]
      [] nf.t = "List" -> intern_forms(sy, nf.l, 1, <<>>)
      [] OTHER -> [sy |-> sy, form |-> nf]

\* Names the programs use for their variables, functions and parameters: all
\* are interned at construction, so reading a program leaves the interner as
\* it is and the state space stays small.
n_min == <<"m", "i", "n">>
n_subs == <<"s", "u", "b", "s">>
n_terms == <<"t", "e", "r", "m", "s">>
n_factors == <<"f", "a", "c", "t", "o", "r", "s">>
n_o1 == <<"o", "1">>
n_o2 == <<"o", "2">>
n_lst == <<"l", "s", "t">>
n_first == <<"f", "i", "r", "s", "t">>
n_rest == <<"r", "e", "s", "t">>

S(name) == Symbol(name)
N(k) == Number(k)
L(l) == List(l)
Q(v) == List(<<Symbol(n_quote), v>>)
Str(s) == String(s)

\* the parameter names of the generated callables, and their rest parameter
ParamNames == <<n_o1, n_o2, n_lst, n_unquote>>
RestName == n_quasiquote

\* (fn (p1 .. pn) body..) / (macro (p1 .. pn &rest r) body..) as a quoted literal
Params(n, with_rest) ==
    L([i \in 1..n |-> S(ParamNames[i])]
      \o (IF with_rest THEN <<S(n_rest_marker), S(RestName)>> ELSE <<>>))
Fn(kind, params, body) == Q(L(<<S(kind), params>> \o body))

\* an argument whose evaluation would write the global scope
DefArg == L(<<S(n_def), S(n_subs), N(9)>>)

\* calls with m arguments of a callable with n positional parameters
ExactCall(n, m) == L(<<Fn(n_fn, Params(n, FALSE), <<N(0)>>)>> \o [i \in 1..m |-> DefArg])
RestCall(kind, n, m) ==
    L(<<Fn(kind, Params(n, TRUE), <<Q(N(0))>>)>> \o [i \in 1..m |-> N(10 + i)])

Arities == {<<n, m>> : n \in 0..MaxPos, m \in 0..MaxArgs}
ArityOf(i) == CHOOSE a \in Arities : a[1] * (MaxArgs + 1) + a[2] + 1 = i
NumArities == (MaxPos + 1) * (MaxArgs + 1)

F_terms == Fn(n_fn, L(<<>>), <<S(n_min)>>)
M_factors == Fn(n_macro, L(<<S(n_o1)>>), <<S(n_o1)>>)

\* The fixed top-level forms.
FixedPrograms == <<
    \* 1: (+ 1 (+ 2 "x"))
    L(<<S(<<"+">>), N(1), L(<<S(<<"+">>), N(2), Str(<<"x">>)>>)>>),
    \* 2: (first 5)
    L(<<S(n_first), N(5)>>),
    \* 3: (+ 1 (rest "x"))
    L(<<S(<<"+">>), N(1), L(<<S(n_rest), Str(<<"x">>)>>)>>),
    \* 4: (- "x" 1)
    L(<<S(<<"-">>), Str(<<"x">>), N(1)>>),
    \* 5: (* 2 (- 3 1 "x"))
    L(<<S(<<"*">>), N(2), L(<<S(<<"-">>), N(3), N(1), Str(<<"x">>)>>)>>),
    \* 6: (= 1 (= "x" 1))
    L(<<S(<<"=">>), N(1), L(<<S(<<"=">>), Str(<<"x">>), N(1)>>)>>),
    \* 7: (= 1 "x")
    L(<<S(<<"=">>), N(1), Str(<<"x">>)>>),
    \* 8: (def min 5)
    L(<<S(n_def), S(n_min), N(5)>>),
    \* 9: (set min 5)
    L(<<S(n_set), S(n_min), N(5)>>),
    \* 10: (def terms '(fn () min))
    L(<<S(n_def), S(n_terms), F_terms>>),
    \* 11: (def factors '(macro (o1) o1))
    L(<<S(n_def), S(n_factors), M_factors>>),
    \* 12: (let ((min 7)) (terms))
    L(<<S(n_let), L(<<L(<<S(n_min), N(7)>>)>>), L(<<S(n_terms)>>)>>),
    \* 13: ((quote (fn (min) (terms))) 7)
    L(<<Fn(n_fn, L(<<S(n_min)>>), <<L(<<S(n_terms)>>)>>), N(7)>>),
    \* 14: (let ((min 1)) (+ min "s"))
    L(<<S(n_let), L(<<L(<<S(n_min), N(1)>>)>>), L(<<S(<<"+">>), S(n_min), Str(<<"s">>)>>)>>),
    \* 15: ((quote (fn (o1) (let ((o2 o1)) (o2)))) 1)
    L(<<Fn(n_fn, L(<<S(n_o1)>>),
           <<L(<<S(n_let), L(<<L(<<S(n_o2), S(n_o1)>>)>>), L(<<S(n_o2)>>)>>)>>), N(1)>>),
    \* 16: ((quote (macro (o1) (first o1))) 5)
    L(<<Fn(n_macro, L(<<S(n_o1)>>), <<L(<<S(n_first), S(n_o1)>>)>>), N(5)>>),
    \* 17: ((quote (macro (o1) (quote o1))) 1)
    L(<<Fn(n_macro, L(<<S(n_o1)>>), <<Q(S(n_o1))>>), N(1)>>),
    \* 18: ((quote (macro (o1) 5)) (def subs 9))
    L(<<Fn(n_macro, L(<<S(n_o1)>>), <<N(5)>>), DefArg>>),
    \* 19: (factors (def subs 9))
    L(<<S(n_factors), DefArg>>),
    \* 20: (let ((min 7)) (factors (+ min 1)))
    L(<<S(n_let), L(<<L(<<S(n_min), N(7)>>)>>),
        L(<<S(n_factors), L(<<S(<<"+">>), S(n_min), N(1)>>)>>)>>),
    \* 21: ((quote (macro () (quote ((quote (macro () 4)))))))
    L(<<Fn(n_macro, L(<<>>), <<Q(L(<<Fn(n_macro, L(<<>>), <<N(4)>>)>>))>>)>>),
    \* 22: ((quote (macro () (quote (factors 4)))))
    L(<<Fn(n_macro, L(<<>>), <<Q(L(<<S(n_factors), N(4)>>))>>)>>),
    \* 23: (let ((min 1)) (set min 2) min)
    L(<<S(n_let), L(<<L(<<S(n_min), N(1)>>)>>), L(<<S(n_set), S(n_min), N(2)>>), S(n_min)>>),
    \* 24: (let ((o1 1)) (set min 2))
    L(<<S(n_let), L(<<L(<<S(n_o1), N(1)>>)>>), L(<<S(n_set), S(n_min), N(2)>>)>>),
    \* 25: (let ((min 1)) (let ((o1 2)) (set min 3)) min)
    L(<<S(n_let), L(<<L(<<S(n_min), N(1)>>)>>),
        L(<<S(n_let), L(<<L(<<S(n_o1), N(2)>>)>>), L(<<S(n_set), S(n_min), N(3)>>)>>),
        S(n_min)>>),
    \* 26: ((quote (fn (o1) (set min o1) min)) 3)
    L(<<Fn(n_fn, L(<<S(n_o1)>>), <<L(<<S(n_set), S(n_min), S(n_o1)>>), S(n_min)>>), N(3)>>),
    \* 27: ((quote (macro (o1) (set min 8) 1)) 0)
    L(<<Fn(n_macro, L(<<S(n_o1)>>), <<L(<<S(n_set), S(n_min), N(8)>>), N(1)>>), N(0)>>),
    \* 28: (let ((o1 1)) (def min 5))
    L(<<S(n_let), L(<<L(<<S(n_o1), N(1)>>)>>), L(<<S(n_def), S(n_min), N(5)>>)>>),
    \* 29: (let ((min 1)) (def min 5) min)
    L(<<S(n_let), L(<<L(<<S(n_min), N(1)>>)>>), L(<<S(n_def), S(n_min), N(5)>>), S(n_min)>>),
    \* 30: ((quote (fn (o1) (let ((o2 1)) (def min o1)))) 5)
    L(<<Fn(n_fn, L(<<S(n_o1)>>),
           <<L(<<S(n_let), L(<<L(<<S(n_o2), N(1)>>)>>), L(<<S(n_def), S(n_min), S(n_o1)>>)>>)>>),
        N(5)>>),
    \* 31: ((quote (macro () (def min 5))))
    L(<<Fn(n_macro, L(<<>>), <<L(<<S(n_def), S(n_min), N(5)>>)>>)>>),
    \* 32: (= (def subs 9))
    L(<<S(<<"=">>), DefArg>>),
    \* 33: (first (def subs 9) (def subs 9))
    L(<<S(n_first), DefArg, DefArg>>),
    \* 34: (- )
    L(<<S(<<"-">>)>>),
    \* 35: (- 9 1 2)
    L(<<S(<<"-">>), N(9), N(1), N(2)>>),
    \* 36: (first (quote ()))
    L(<<S(n_first), Q(L(<<>>))>>),
    \* 37: (let ((min 1)) (let ((min 2)) min))
    L(<<S(n_let), L(<<L(<<S(n_min), N(1)>>)>>),
        L(<<S(n_let), L(<<L(<<S(n_min), N(2)>>)>>), S(n_min)>>)>>),
    \* 38: (let ((min 1)) (let ((min 2)) min) min)
    L(<<S(n_let), L(<<L(<<S(n_min), N(1)>>)>>),
        L(<<S(n_let), L(<<L(<<S(n_min), N(2)>>)>>), S(n_min)>>), S(n_min)>>),
    \* 39: (let ((min)) 1)
    L(<<S(n_let), L(<<L(<<S(n_min)>>)>>), N(1)>>),
    \* 40: ((quote (fn (&rest) 1)))
    L(<<Fn(n_fn, L(<<S(n_rest_marker)>>), <<N(1)>>)>>),
    \* 41: 5
    N(5),
    \* 42: "x"
    Str(<<"x">>),
    \* 43: #t
    Bool(TRUE),
    \* 44: ((quote (macro () first)))
    L(<<Fn(n_macro, L(<<>>), <<S(n_first)>>)>>),
    \* 45: ((quote (macro () def)))
    L(<<Fn(n_macro, L(<<>>), <<S(n_def)>>)>>),
    \* 46: (begin (def min 5) min)
    L(<<S(n_begin), L(<<S(n_def), S(n_min), N(5)>>), S(n_min)>>),
    \* 47: (- (def min 5) min)
    L(<<S(<<"-">>), L(<<S(n_def), S(n_min), N(5)>>), S(n_min)>>),
    \* 48: (- min (def min 5))
    L(<<S(<<"-">>), S(n_min), L(<<S(n_def), S(n_min), N(5)>>)>>),
    \* 49: ((quote (fn () (def min 5) min)))
    L(<<Fn(n_fn, L(<<>>), <<L(<<S(n_def), S(n_min), N(5)>>), S(n_min)>>)>>),
    \* 50: (let ((o1 1)) (+ (set o1 2) o1))
    L(<<S(n_let), L(<<L(<<S(n_o1), N(1)>>)>>),
        L(<<S(<<"+">>), L(<<S(n_set), S(n_o1), N(2)>>), S(n_o1)>>)>>),
    \* 51: (let ((min 1) (o2 min)) o2)
    L(<<S(n_let), L(<<L(<<S(n_min), N(1)>>), L(<<S(n_o2), S(n_min)>>)>>), S(n_o2)>>),
    \* 52: (let ((o1 1) (o2 2)) (+ o1 o2))
    L(<<S(n_let), L(<<L(<<S(n_o1), N(1)>>), L(<<S(n_o2), N(2)>>)>>),
        L(<<S(<<"+">>), S(n_o1), S(n_o2)>>)>>),
    \* 53: (let ((o1 (def min 5)) (o2 min)) (+ o1 o2))
    L(<<S(n_let), L(<<L(<<S(n_o1), L(<<S(n_def), S(n_min), N(5)>>)>>),
                     L(<<S(n_o2), S(n_min)>>)>>),
        L(<<S(<<"+">>), S(n_o1), S(n_o2)>>)>>),
    \* 54: min
    S(n_min),
    \* 55: o1
    S(n_o1),
    \* 56: (let ((o1 1)) o2)
    L(<<S(n_let), L(<<L(<<S(n_o1), N(1)>>)>>), S(n_o2)>>),
    \* 57: ((quote (fn () 1 (+ 1 "x"))))
    L(<<Fn(n_fn, L(<<>>), <<N(1), L(<<S(<<"+">>), N(1), Str(<<"x">>)>>)>>)>>),
    \* 58: ((quote (fn (o1) o1)) (+ 1 "x"))
    L(<<Fn(n_fn, L(<<S(n_o1)>>), <<S(n_o1)>>), L(<<S(<<"+">>), N(1), Str(<<"x">>)>>)>>),
    \* 59: (terms)
    L(<<S(n_terms)>>),
    \* 60: (if #t (def min 5) (def subs 9))
    L(<<S(n_if), Bool(TRUE), L(<<S(n_def), S(n_min), N(5)>>), L(<<S(n_def), S(n_subs), N(9)>>)>>),
    \* 61: (if #f (def min 5))
    L(<<S(n_if), Bool(FALSE), L(<<S(n_def), S(n_min), N(5)>>)>>),
    \* 62: (if #f (def subs 9) 7 (def min 5) min)
    L(<<S(n_if), Bool(FALSE), L(<<S(n_def), S(n_subs), N(9)>>), N(7),
        L(<<S(n_def), S(n_min), N(5)>>), S(n_min)>>),
    \* 63: (if 5 (def min 5) (def subs 9))
    L(<<S(n_if), N(5), L(<<S(n_def), S(n_min), N(5)>>), L(<<S(n_def), S(n_subs), N(9)>>)>>),
    \* 64: (if ((quote (fn () #f))) 1 2)
    L(<<S(n_if), L(<<Fn(n_fn, L(<<>>), <<Bool(FALSE)>>)>>), N(1), N(2)>>),
    \* 65: (5 1)
    L(<<N(5), N(1)>>),
    \* 66: (def 5 1)
    L(<<S(n_def), N(5), N(1)>>),
    \* 67: (first)
    L(<<S(n_first)>>),
    \* 68: (set 5 1)
    L(<<S(n_set), N(5), N(1)>>),
    \* 69: (def min o1)
    L(<<S(n_def), S(n_min), S(n_o1)>>),
    \* 70: (set min o1)
    L(<<S(n_set), S(n_min), S(n_o1)>>),
    \* 71: (def 5 (def subs 9))
    L(<<S(n_def), N(5), L(<<S(n_def), S(n_subs), N(9)>>)>>),
    \* 72: (set 5 (def subs 9))
    L(<<S(n_set), N(5), L(<<S(n_def), S(n_subs), N(9)>>)>>),
    \* 73: (let ((o2 1)) (set o2 o1) o2)
    L(<<S(n_let), L(<<L(<<S(n_o2), N(1)>>)>>), L(<<S(n_set), S(n_o2), S(n_o1)>>), S(n_o2)>>)
>>

NumFixed == Len(FixedPrograms)

\* Program i: a fixed form, or a generated call
Program(i) ==
    IF i <= NumFixed THEN FixedPrograms[i]
    ELSE IF i <= NumFixed + NumArities
    THEN ExactCall(ArityOf(i - NumFixed)[1], ArityOf(i - NumFixed)[2])
    ELSE IF i <= NumFixed + 2 * NumArities
    THEN RestCall(n_fn, ArityOf(i - NumFixed - NumArities)[1],
                  ArityOf(i - NumFixed - NumArities)[2])
    ELSE RestCall(n_macro, ArityOf(i - NumFixed - 2 * NumArities)[1],
                  ArityOf(i - NumFixed - 2 * NumArities)[2])
NumPrograms == NumFixed + 3 * NumArities

\* -------------------------------------------------------------------- lexer
\* Text is a sequence of characters. The character U+0060 cannot be written
\* in a string here and is denoted by c_backquote. The texts fed to the lexer
\* do not contain ".", so the Number pattern is -?[0-9]+ on them.
c_backquote == "bq"

\* [ \t\n\f], the skipped class of ObjectT
IsSkip(c) == c \in {" ", "\t", "\n", "\f"}
\* \s of the Symbol pattern
IsSpace(c) == IsSkip(c) \/ c = "\r"
IsDigit(c) == \E d \in 1..10 : Digits[d] = c
DigitVal(c) == (CHOOSE d \in 1..10 : Digits[d] = c) - 1

RECURSIVE skip_end(_, _)
\* index of the first character at or after p outside the skipped class
skip_end(input, p) ==
    IF p > Len(input) \/ ~IsSkip(input[p]) THEN p ELSE skip_end(input, p + 1)

RECURSIVE symbol_end(_, _)
\* index after the longest run [^\s\(\)]+ that starts at p
symbol_end(input, p) ==
    IF p > Len(input) \/ IsSpace(input[p]) \/ input[p] \in {"(", ")"} THEN p
    ELSE symbol_end(input, p + 1)

RECURSIVE text_end(_, _)
\* index after the longest run [^\\"]+ that starts at p
text_end(input, p) ==
    IF p > Len(input) \/ input[p] \in {"\\", "\""} THEN p
    ELSE text_end(input, p + 1)

RECURSIVE ParseNat(_)
ParseNat(s) == IF s = <<>> THEN 0 ELSE 10 * ParseNat(Front(s)) + DigitVal(Last(s))

\* the Number pattern, and lex.slice().parse()
IsNumberText(s) ==
    LET ds == IF s # <<>> /\ Head(s) = "-" THEN Tail(s) ELSE s
    IN ds # <<>> /\ \A i \in 1..Len(ds) : IsDigit(ds[i])
ParseNumber(s) ==
    IF Head(s) = "-" THEN 0 - ParseNat(Tail(s)) ELSE ParseNat(s)

\* The ObjectT token of a slice that holds no whitespace and no parenthesis:
\* the patterns that match the whole slice, the one of highest priority first;
\* a literal that matches only a proper prefix loses to the longer Symbol.
object_token(s) ==
    CASE s = <<"#", "t">> -> [tok |-> "True", text |-> s]
      [] s = <<"#", "f">> -> [tok |-> "False", text |-> s]
      [] IsNumberText(s) -> [tok |-> "Number", text |-> s]
      [] s = <<"\"">> -> [tok |-> "StartString", text |-> s]
      [] s = <<"'">> -> [tok |-> "Quote", text |-> s]
      [] s = <<c_backquote>> -> [tok |-> "QuasiQuote", text |-> s]
      [] s = <<",">> -> [tok |-> "Unquote", text |-> s]
      [] s = <<",", "@">> -> [tok |-> "UnquoteSplice", text |-> s]
      [] OTHER -> [tok |-> "Symbol", text |-> s]

\* Lexer::new: object mode, cursor at offset 0
Lexer_new == [mode |-> "Object", pos |-> 0, span |-> <<0, 0>>]

\* A lexer that stays in string mode after the closing delimiter of a string.
lexer_next_string_stuck(input, lx) ==
    IF lx.mode = "Object"
    THEN LET p == skip_end(input, lx.pos + 1)
         IN IF p > Len(input)
            THEN [t |-> None, lx |-> [lx EXCEPT !.pos = Len(input),
                                                !.span = <<Len(input), Len(input)>>]]
            ELSE IF input[p] \in {"(", ")"}
            THEN [t |-> [mode |-> "Object",
                         tok |-> IF input[p] = "(" THEN "LBrace" ELSE "RBrace",
                         text |-> <<input[p]>>],
                  lx |-> [lx EXCEPT !.pos = p, !.span = <<p - 1, p>>]]
            ELSE IF IsSpace(input[p])
            THEN [t |-> [mode |-> "Object", tok |-> "Error", text |-> <<input[p]>>],
                  lx |-> [lx EXCEPT !.pos = p, !.span = <<p - 1, p>>]]
            ELSE LET q == symbol_end(input, p)
                     tk == object_token(SubSeq(input, p, q - 1))
                 IN [t |-> [mode |-> "Object", tok |-> tk.tok, text |-> tk.text],
                     lx |-> [mode |-> IF tk.tok = "StartString" THEN "String" ELSE "Object",
                             pos |-> q - 1, span |-> <<p - 1, q - 1>>]]
    ELSE LET p == lx.pos + 1
         IN IF p > Len(input)
            THEN [t |-> None, lx |-> [lx EXCEPT !.span = <<Len(input), Len(input)>>]]
            ELSE IF input[p] = "\""
            THEN [t |-> [mode |-> "String", tok |-> "EndString", text |-> <<input[p]>>],
                  lx |-> [mode |-> "String", pos |-> p, span |-> <<p - 1, p>>]]
            ELSE IF input[p] = "\\"
            THEN [t |-> [mode |-> "String", tok |-> "Error", text |-> <<input[p]>>],
                  lx |-> [lx EXCEPT !.pos = p, !.span = <<p - 1, p>>]]
            ELSE LET q == text_end(input, p)
                 IN [t |-> [mode |-> "String", tok |-> "Text", text |-> SubSeq(input, p, q - 1)],
                     lx |-> [lx EXCEPT !.pos = q - 1, !.span = <<p - 1, q - 1>>]]

\* Lexer::next: the token (None at the end of the input) and the lexer after
\* it. pos is the byte offset of the cursor, span the offsets of the token.
lexer_next(input, lx) ==
    IF lx.mode = "Object"
    THEN LET p == skip_end(input, lx.pos + 1)
         IN IF p > Len(input)
            THEN [t |-> None, lx |-> [lx EXCEPT !.pos = Len(input),
                                                !.span = <<Len(input), Len(input)>>]]
            ELSE IF input[p] \in {"(", ")"}
            THEN [t |-> [mode |-> "Object",
                         tok |-> IF input[p] = "(" THEN "LBrace" ELSE "RBrace",
                         text |-> <<input[p]>>],
                  lx |-> [lx EXCEPT !.pos = p, !.span = <<p - 1, p>>]]
            ELSE IF IsSpace(input[p])
            THEN [t |-> [mode |-> "Object", tok |-> "Error", text |-> <<input[p]>>],
                  lx |-> [lx EXCEPT !.pos = p, !.span = <<p - 1, p>>]]
            ELSE LET q == symbol_end(input, p)
                     tk == object_token(SubSeq(input, p, q - 1))
                 IN [t |-> [mode |-> "Object", tok |-> tk.tok, text |-> tk.text],
                     lx |-> [mode |-> IF tk.tok = "StartString" THEN "String" ELSE "Object",
                             pos |-> q - 1, span |-> <<p - 1, q - 1>>]]
    ELSE LET p == lx.pos + 1
         IN IF p > Len(input)
            THEN [t |-> None, lx |-> [lx EXCEPT !.span = <<Len(input), Len(input)>>]]
            ELSE IF input[p] = "\""
            THEN [t |-> [mode |-> "String", tok |-> "EndString", text |-> <<input[p]>>],
                  lx |-> [mode |-> "Object", pos |-> p, span |-> <<p - 1, p>>]]
            ELSE IF input[p] = "\\"
            THEN [t |-> [mode |-> "String", tok |-> "Error", text |-> <<input[p]>>],
                  lx |-> [lx EXCEPT !.pos = p, !.span = <<p - 1, p>>]]
            ELSE LET q == text_end(input, p)
                 IN [t |-> [mode |-> "String", tok |-> "Text", text |-> SubSeq(input, p, q - 1)],
                     lx |-> [lx EXCEPT !.pos = q - 1, !.span = <<p - 1, q - 1>>]]

\* ------------------------------------------------------------------- reader
\* ReadError
UnknownCharacter(span) == [re |-> "UnknownCharacter", span |-> span]
UnexpectedRbrace(span) == [re |-> "UnexpectedRbrace", span |-> span]
UnexpectedEndOfString == [re |-> "UnexpectedEndOfString", span |-> <<>>]
InternalError == [re |-> "InternalError", span |-> <<>>]

\* ReaderFrame: an open list with its elements so far, or a pending prefix
Sexpr(lst) == [rf |-> "Sexpr", lst |-> lst]
PrefixFrame(kind) == [rf |-> kind, lst |-> <<>>]

\* Reader::new
Reader_new == <<>>

\* Symbols::symbol
symbol(sy, name) == LET r == intern(sy, name) IN [sy |-> r.sy, obj |-> Symbol(r.id)]
\* Symbols::quote, quasi_quote, unquote, unquote_splice
quote(sy, obj) == List(<<Symbol(sym_quote(sy)), obj>>)
quasi_quote(sy, obj) == List(<<Symbol(sym_quasiquote(sy)), obj>>)
unquote(sy, obj) == List(<<Symbol(sym_unquote(sy)), obj>>)
unquote_splice(sy, obj) == List(<<Symbol(sym_unquote_splice(sy)), obj>>)

\* A handle_obj that completes every object at once, whatever the stack holds.
handle_obj_eager(sy, stack, obj) == [stack |-> stack, res |-> Some(obj)]

RECURSIVE handle_obj_sticky_prefix(_, _, _)
\* A handle_obj that leaves a prefix frame on the stack of an open list after
\* it has wrapped an object with it.
handle_obj_sticky_prefix(sy, stack, obj) ==
    IF stack = <<>> THEN [stack |-> stack, res |-> Some(obj)]
    ELSE LET top == Last(stack)
             below == Front(stack)
             kept(h) == IF h.res = None THEN [stack |-> Append(h.stack, top), res |-> None]
                        ELSE h
         IN CASE top.rf = "Quote" ->
                    kept(handle_obj_sticky_prefix(sy, below, quote(sy, obj)))
              [] top.rf = "QuasiQuote" ->
                    kept(handle_obj_sticky_prefix(sy, below, quasi_quote(sy, obj)))
              [] top.rf = "Unquote" ->
                    kept(handle_obj_sticky_prefix(sy, below, unquote(sy, obj)))
              [] top.rf = "UnquoteSplice" ->
                    kept(handle_obj_sticky_prefix(sy, below, unquote_splice(sy, obj)))
              [] OTHER -> [stack |-> Append(below, Sexpr(Append(top.lst, obj))),
                           res |-> None]

RECURSIVE handle_obj(_, _, _)
\* Reader::handle_obj: the stack after, and the completed top-level form if
\* the stack ran empty
handle_obj(sy, stack, obj) ==
    IF stack = <<>> THEN [stack |-> stack, res |-> Some(obj)]
    ELSE LET top == Last(stack)
             below == Front(stack)
         IN CASE top.rf = "Quote" -> handle_obj(sy, below, quote(sy, obj))
              [] top.rf = "QuasiQuote" -> handle_obj(sy, below, quasi_quote(sy, obj))
              [] top.rf = "Unquote" -> handle_obj(sy, below, unquote(sy, obj))
              [] top.rf = "UnquoteSplice" -> handle_obj(sy, below, unquote_splice(sy, obj))
              [] OTHER -> [stack |-> Append(below, Sexpr(Append(top.lst, obj))),
                           res |-> None]

RECURSIVE parse_string(_, _, _)
\* Reader::parse_string: the String value and the lexer after the closing
\* delimiter, or the error
parse_string(input, lx, string) ==
    LET on_n(n) ==
            CASE n.t = None -> [k |-> "Err", e |-> UnexpectedEndOfString, lx |-> n.lx]
              [] n.t # None /\ n.t.mode = "Object" ->
                     [k |-> "Err", e |-> InternalError, lx |-> n.lx]
              [] n.t # None /\ n.t.mode = "String" /\ n.t.tok = "Error" ->
                     [k |-> "Err", e |-> UnknownCharacter(n.lx.span), lx |-> n.lx]
              [] n.t # None /\ n.t.mode = "String" /\ n.t.tok = "Text" ->
                     parse_string(input, n.lx, string \o n.t.text)
              [] OTHER -> [k |-> "Ok", v |-> String(string), lx |-> n.lx]
    IN on_n(lexer_next(input, lx))

\* A pop_list that takes a ")" without an open list for the end of an empty
\* list.
pop_list_lenient(stack, lx) ==
    IF stack # <<>> /\ Last(stack).rf = "Sexpr"
    THEN [k |-> "Ok", v |-> List(Last(stack).lst), stack |-> Front(stack)]
    ELSE [k |-> "Ok", v |-> List(<<>>), stack |-> IF stack = <<>> THEN stack ELSE Front(stack)]

\* Reader::pop_list
pop_list(stack, lx) ==
    IF stack # <<>> /\ Last(stack).rf = "Sexpr"
    THEN [k |-> "Ok", v |-> List(Last(stack).lst), stack |-> Front(stack)]
    ELSE [k |-> "Err", e |-> UnexpectedRbrace(lx.span),
          stack |-> IF stack = <<>> THEN stack ELSE Front(stack)]

RECURSIVE parse_sexp(_, _, _, _)
\* Reader::parse_sexp: reads to the next completed top-level form (res is
\* Some), to the end of the input (res is None) or to an error.
parse_sexp(sy, stack, input, lx) ==
    LET \* if let Some(a) = self.handle_obj(..) { return Ok(Some(a)) }
        done(sy1, h, lx1) ==
            IF h.res = None THEN parse_sexp(sy1, h.stack, input, lx1)
            ELSE [k |-> "Ok", res |-> h.res, sy |-> sy1, stack |-> h.stack, lx |-> lx1]
        failed(e, stack1, lx1) ==
            [k |-> "Err", e |-> e, sy |-> sy, stack |-> stack1, lx |-> lx1]
        push(fr, lx1) == parse_sexp(sy, Append(stack, fr), input, lx1)
        on_list(p, lx1) ==
            IF p.k = "Err" THEN failed(p.e, p.stack, lx1)
            ELSE done(sy, handle_obj(sy, p.stack, p.v), lx1)
        on_symbol(s, lx1) == done(s.sy, handle_obj(s.sy, stack, s.obj), lx1)
        on_string(s) ==
            IF s.k = "Err" THEN failed(s.e, stack, s.lx)
            ELSE done(sy, handle_obj(sy, stack, s.v), s.lx)
        on_n(t, lx1) ==
            IF t = None THEN [k |-> "Ok", res |-> None, sy |-> sy, stack |-> stack, lx |-> lx1]
            ELSE IF t.mode = "String" THEN failed(InternalError, stack, lx1)
            ELSE CASE t.tok = "Error" -> failed(UnknownCharacter(lx1.span), stack, lx1)
                   [] t.tok = "Quote" -> push(PrefixFrame("Quote"), lx1)
                   [] t.tok = "QuasiQuote" -> push(PrefixFrame("QuasiQuote"), lx1)
                   [] t.tok = "Unquote" -> push(PrefixFrame("Unquote"), lx1)
                   [] t.tok = "UnquoteSplice" -> push(PrefixFrame("UnquoteSplice"), lx1)
                   [] t.tok = "LBrace" -> push(Sexpr(<<>>), lx1)
                   [] t.tok = "RBrace" -> on_list(pop_list(stack, lx1), lx1)
                   [] t.tok = "Symbol" -> on_symbol(symbol(sy, t.text), lx1)
                   [] t.tok = "StartString" -> on_string(parse_string(input, lx1, <<>>))
                   [] t.tok = "True" -> done(sy, handle_obj(sy, stack, Bool(TRUE)), lx1)
                   [] t.tok = "False" -> done(sy, handle_obj(sy, stack, Bool(FALSE)), lx1)
                   [] OTHER -> done(sy, handle_obj(sy, stack, Number(ParseNumber(t.text))), lx1)
        on_next(n) == on_n(n.t, n.lx)
    IN on_next(lexer_next(input, lx))

RECURSIVE partial_loop(_, _, _, _, _)
\* the loop of Reader::partial
partial_loop(sy, stack, prog, input, lx) ==
    LET on_r(r) ==
            IF r.k = "Err"
            THEN [k |-> "Err", e |-> r.e, sy |-> r.sy, stack |-> r.stack, prog |-> prog]
            ELSE IF r.res = None
            THEN [k |-> "Ok", e |-> None, sy |-> r.sy, stack |-> r.stack, prog |-> prog]
            ELSE partial_loop(r.sy, r.stack, Append(prog, r.res.x), input, r.lx)
    IN on_r(parse_sexp(sy, stack, input, lx))

\* A partial that starts every call from an empty stack.
partial_fresh_stack(sy, stack, prog, input) == partial_loop(sy, Reader_new, prog, input, Lexer_new)

\* Reader::partial: a fresh lexer over the input, the reader's stack kept
partial(sy, stack, prog, input) == partial_loop(sy, stack, prog, input, Lexer_new)

\* Reader::len
len(stack) == Len(stack)

\* -------------------------------------------------------------------- lines
\* Lines of text typed at the REPL. Pieces of forms, so that a form is
\* completed over several calls of partial, whole forms, a stray ")", prefixes
\* before atoms and lists, and a string that is not closed.
Lines ==
    << <<"(", "+", " ", "1">>,
       <<" ", "2", ")">>,
       <<"'">>,
       <<"5">>,
       <<")">>,
       <<"(", "d", "e", "f", " ", "m", "i", "n", " ", "5", ")", " ", "m", "i", "n">>,
       <<"5", " ", "'", " ", ")">>,
       <<"'", " ", ",", " ", "5">>,
       <<"(", "'", " ", "(", "5", ")", " ", "2", ")">>,
       <<"(", "5", " ", "\"">> >>
NumLines == Len(Lines)

RECURSIVE eval_prog(_, _, _, _, _)
\* The loop of Interpreter::handle_line over the forms of one line: each is
\* evaluated and its value printed; the first error ends the loop.
eval_prog(sy, prog, i, st, printed) ==
    IF i > Len(prog) THEN [k |-> "Ok", e |-> None, st |-> st, printed |-> printed]
    ELSE LET on_r(r) ==
                 CASE r.k = "Abort" -> [k |-> "Abort", e |-> None, st |-> st, printed |-> printed]
                   [] r.k = "Err" -> [k |-> "Err", e |-> frame(r.e, prog[i], <<":", "i", "n", ":">>),
                                      st |-> r.st, printed |-> printed]
                   [] OTHER -> eval_prog(sy, prog, i + 1, [r.st EXCEPT !.log = <<>>],
                                         Append(printed, serialize_object(sy, r.v)))
         IN on_r(Call("eval", <<sy, prog[i], st, MaxDepth>>))

\* ------------------------------------------------------------ state machine
\* out.op is where the REPL loop of Interpreter::interactive stands: "prompt"
\* before rl.readline, "eval" after a top-level form was evaluated and
\* reported, "line" after a line of text was handled. fed is the history of
\* the lines handed to the reader since its stack was last empty.
Init ==
    /\ symbols = Interpreter_new.sy
    /\ env = Interpreter_new.vars
    /\ reader = Reader_new
    /\ overflow_checks \in BOOLEAN
    /\ aborted = FALSE
    /\ fed = <<>>
    /\ out = [op |-> "prompt"]

\* One top-level form, completed by the reader at depth 0, evaluated and
\* reported: the body of the loop of Interpreter::handle_line (eval,
\* frame(obj, ":in:") on error) followed by handle_exec_error.
EvalTop(i) ==
    /\ ~aborted
    /\ out.op = "prompt"
    /\ reader = <<>>
    /\ LET report(rd, r, e) ==
               /\ symbols' = rd.sy
               /\ aborted' = (r.k = "Abort")
               /\ env' = IF r.k = "Abort" THEN env ELSE r.st.vars
               /\ out' = [op |-> "eval", prog |-> i, form |-> rd.form, k |-> r.k,
                          v |-> IF r.k = "Ok" THEN r.v ELSE None,
                          e |-> e,
                          located |-> IF r.k = "Err" THEN handle_eval_error(rd.sy, e) ELSE <<>>,
                          log |-> r.st.log, pre |-> env]
           on_r(rd, r) ==
               report(rd, r, IF r.k = "Err" THEN frame(r.e, rd.form, <<":", "i", "n", ":">>)
                             ELSE None)
           on_rd(rd) ==
               on_r(rd, Call("eval", <<rd.sy, rd.form,
                                       [vars |-> env, checks |-> overflow_checks, log |-> <<>>],
                                       MaxDepth>>))
       IN on_rd(intern_form(symbols, Program(i)))
    /\ UNCHANGED <<reader, overflow_checks, fed>>

\* Interpreter::handle_line on one line of text, followed by
\* handle_exec_error: the reader takes the line, then every form it completed
\* is evaluated. A read error leaves the forms of the line unevaluated; an
\* InternalError ends the REPL loop.
HandleLine(l) ==
    /\ ~aborted
    /\ out.op = "prompt"
    /\ Len(fed) < MaxChunks
    /\ LET on_r(rd, r) ==
               /\ symbols' = rd.sy
               /\ reader' = rd.stack
               /\ aborted' = (r.k = "Abort" \/ (rd.k = "Err" /\ rd.e.re = "InternalError"))
               /\ env' = r.st.vars
               /\ fed' = IF rd.stack = <<>> THEN <<>> ELSE Append(fed, l)
               /\ out' = [op |-> "line", line |-> l, k |-> r.k, read |-> rd.e,
                          prog |-> rd.prog, printed |-> r.printed, e |-> r.e,
                          fed |-> Append(fed, l), pre |-> env, depth |-> len(reader),
                          before |-> reader]
           on_rd(rd, st0) ==
               on_r(rd, IF rd.k = "Ok" THEN eval_prog(rd.sy, rd.prog, 1, st0, <<>>)
                        ELSE [k |-> "Read", e |-> None, st |-> st0, printed |-> <<>>])
       IN on_rd(partial(symbols, reader, <<>>, Lines[l]),
                [vars |-> env, checks |-> overflow_checks, log |-> <<>>])
    /\ UNCHANGED overflow_checks

\* The loop of Interpreter::interactive comes back to rl.readline.
Prompt ==
    /\ ~aborted
    /\ out.op # "prompt"
    /\ out' = [op |-> "prompt"]
    /\ UNCHANGED <<symbols, env, reader, overflow_checks, aborted, fed>>

NextEval ==
    \/ \E i \in 1..NumPrograms : EvalTop(i)
    \/ Prompt

NextRead ==
    \/ \E l \in 1..NumLines : HandleLine(l)
    \/ Prompt

Next ==
    \/ \E i \in 1..NumPrograms : EvalTop(i)
    \/ \E l \in 1..NumLines : HandleLine(l)
    \/ Prompt

\* Every session
Spec == Init /\ [][Next]_vars
\* Sessions in which every line is one whole form of Program
SpecEval == Init /\ [][NextEval]_vars
\* Sessions in which every line is one of Lines
SpecRead == Init /\ [][NextRead]_vars

\* --------------------------------------------------------------- round trip
\* Values of every variant but Native and SpecialForm, nested to depth 2, over
\* names the interner sy holds.
RoundTripAtoms(sy) ==
    {Bool(TRUE), Bool(FALSE), Number(0), Number(5), Number(12), Number(-3),
     String(<<>>), String(<<"x">>), String(<<"a", " ", "b">>),
     Symbol(sy.registry[n_min]), Symbol(sy.registry[<<"+">>]), Symbol(sy.registry[n_quote])}
RoundTripLists(sy) ==
    LET few == {Number(5), String(<<"x">>), Symbol(sy.registry[n_min]), Bool(TRUE)}
        flat == {List(<<>>)} \cup {List(<<a>>) : a \in RoundTripAtoms(sy)}
                \cup {List(<<a, b>>) : a \in few, b \in few}
    IN flat \cup {List(<<Symbol(sy.registry[n_quote]), List(<<a>>)>>) : a \in few}
            \cup {List(<<List(<<>>), a, List(<<a, a>>)>>) : a \in few}
RoundTripFunctions(sy) ==
    LET o1 == sy.registry[n_o1]
        o2 == sy.registry[n_o2]
        params == {<< <<>>, None >>, << <<o1>>, None >>, << <<o1>>, Some(o2) >>}
        bodies == {<<>>, <<Number(1)>>, <<Symbol(o1), List(<<Symbol(o1), Number(2)>>)>>}
    IN {Lambda(ps[1], ps[2], fs) : ps \in params, fs \in bodies}
       \cup {Macro(ps[1], ps[2], fs) : ps \in params, fs \in bodies}
RoundTripValues(sy) == RoundTripAtoms(sy) \cup RoundTripLists(sy) \cup RoundTripFunctions(sy)

\* A value is printed as Interpreter::handle_line prints a result, and the text
\* is read by a fresh Reader.
ReadBack(v) ==
    /\ ~aborted
    /\ out.op = "prompt"
    /\ LET on_rd(text, rd) ==
               out' = [op |-> "readback", v |-> v, text |-> text, k |-> rd.k, read |-> rd.e,
                       prog |-> rd.prog, depth |-> len(rd.stack),
                       interned |-> DOMAIN rd.sy.registry \ DOMAIN symbols.registry]
           on_text(text) == on_rd(text, partial(symbols, Reader_new, <<>>, text))
       IN on_text(serialize_object(symbols, v))
    /\ UNCHANGED <<symbols, env, reader, overflow_checks, aborted, fed>>

NextRoundTrip ==
    \/ \E v \in RoundTripValues(symbols) : ReadBack(v)
    \/ Prompt

\* Sessions in which values are printed and read back
SpecRoundTrip == Init /\ [][NextRoundTrip]_vars

\* ----------------------------------------------------------------- interning
\* Names handed to Symbols::intern: names no fresh interpreter holds, and names
\* interned at construction.
FreshNames == << <<"a">>, <<"b">>, <<"a", "b">>, <<"b", "a">>, <<"a", "a">> >>
InternNames ==
    {FreshNames[i] : i \in 1..MaxNames} \cup {n_quote, n_rest_marker, n_min, <<"+">>}

\* One call of Symbols::intern, as the reader makes for a symbol token
\* (Symbols::symbol).
Intern(name) ==
    /\ ~aborted
    /\ out.op = "prompt"
    /\ LET on_r(r) ==
               /\ symbols' = r.sy
               /\ out' = [op |-> "intern", name |-> name, id |-> r.id, pre |-> symbols]
       IN on_r(intern(symbols, name))
    /\ UNCHANGED <<env, reader, overflow_checks, aborted, fed>>

NextIntern ==
    \/ \E name \in InternNames : Intern(name)
    \/ Prompt

\* Sessions of calls of intern
SpecIntern == Init /\ [][NextIntern]_vars

\* ------------------------------------------------------- building an error
\* The messages, indices and forms the methods of EvalError are given.
ErrorMessages == {apply_empty.message, apply_unimpl.message}
ErrorIndices == 0..2
ErrorForms == {Number(5), List(<<Number(1), List(<<Number(2)>>)>>)}

\* EvalError::new(message)
NewError(message) ==
    /\ ~aborted
    /\ out.op \in {"prompt", "error"}
    /\ out' = [op |-> "error", did |-> "new", arg |-> message,
               e |-> EvalError_new(message), pre |-> None, calls |-> 0]
    /\ UNCHANGED <<symbols, env, reader, overflow_checks, aborted, fed>>

\* e.trace(index) on the error built so far
TraceError(index) ==
    /\ ~aborted
    /\ out.op = "error"
    /\ out.calls < MaxCalls
    /\ out' = [op |-> "error", did |-> "trace", arg |-> index,
               e |-> trace(out.e, index), pre |-> out.e, calls |-> out.calls + 1]
    /\ UNCHANGED <<symbols, env, reader, overflow_checks, aborted, fed>>

\* e.frame(expr) on the error built so far
FrameError(expr) ==
    /\ ~aborted
    /\ out.op = "error"
    /\ out.calls < MaxCalls
    /\ out' = [op |-> "error", did |-> "frame", arg |-> expr,
               e |-> frame(out.e, expr, <<>>), pre |-> out.e, calls |-> out.calls + 1]
    /\ UNCHANGED <<symbols, env, reader, overflow_checks, aborted, fed>>

NextError ==
    \/ \E message \in ErrorMessages : NewError(message)
    \/ \E index \in ErrorIndices : TraceError(index)
    \/ \E expr \in ErrorForms : FrameError(expr)

\* An EvalError built by new and then any calls of trace and frame
SpecError == Init /\ [][NextError]_vars

\* ------------------------------------------------------- locating a frame
\* The forms and traces handle_failed_form is given: atoms, the empty list,
\* lists with and without nested lists; traces of indices that are children
\* of the lists and indices that are not.
LocateForms(sy) ==
    {Number(5), String(<<"x">>), Symbol(sy.registry[n_min]),
     List(<<>>),
     List(<<Number(1)>>),
     List(<<Number(1), List(<<>>)>>),
     List(<<List(<<Symbol(sy.registry[n_min]), Number(2)>>), String(<<"x">>)>>),
     quote(sy, List(<<Number(1), Number(2)>>))}
LocateTraces == UNION {[1..n -> 0..2] : n \in 0..MaxTrace}

\* handle_failed_form(sym, form, stack) on one frame (form, stack)
Locate(form, stack) ==
    /\ ~aborted
    /\ out.op = "prompt"
    /\ out' = [op |-> "locate", form |-> form, trace |-> stack,
               r |-> handle_failed_form(symbols, form, stack)]
    /\ UNCHANGED <<symbols, env, reader, overflow_checks, aborted, fed>>

NextLocate ==
    \/ \E form \in LocateForms(symbols), stack \in LocateTraces : Locate(form, stack)
    \/ Prompt

\* Frames located one after the other
SpecLocate == Init /\ [][NextLocate]_vars

\* ------------------------------------------------- parsing a parameter list
\* The raw parameter lists: lists of the symbols o1, o2 and &rest.
ParamSymbols(sy) == {Symbol(sy.registry[n]) : n \in {n_o1, n_o2, n_rest_marker}}
ParamLists(sy) == UNION {[1..n -> ParamSymbols(sy)] : n \in 0..MaxParams}

\* Interpreter::parse_param_list(lst) on one raw parameter list
ParseParams(lst) ==
    /\ ~aborted
    /\ out.op = "prompt"
    /\ out' = [op |-> "params", lst |-> lst,
               r |-> parse_param_list(symbols, lst, overflow_checks)]
    /\ UNCHANGED <<symbols, env, reader, overflow_checks, aborted, fed>>

NextParams ==
    \/ \E lst \in ParamLists(symbols) : ParseParams(lst)
    \/ Prompt

\* Parameter lists parsed one after the other
SpecParams == Init /\ [][NextParams]_vars

\* ------------------------------------------------------- reading any text
\* The characters of the chunks of text: the parentheses, the string
\* delimiter, a space, a digit and the backslash. In this specification fed
\* is the text handed to the reader so far, chunk after chunk.
TextChars == {"(", ")", "\"", " ", "5", "\\"}
Texts(n) == UNION {[1..k -> TextChars] : k \in 1..n}

\* Reader::partial(symbols, prog, input) on the next chunk of text, prog empty
\* as handle_line passes it. out keeps the forms completed so far (forms),
\* whether every call so far returned Ok (clean), and the offsets in the whole
\* text at which a chunk ended and another began (cuts).
ReadText(text) ==
    /\ ~aborted
    /\ out.op \in {"prompt", "text"}
    /\ Len(fed) + Len(text) <= MaxInput
    /\ LET prev == IF out.op = "text" THEN out
                   ELSE [forms |-> <<>>, clean |-> TRUE, cuts |-> {}]
           on_rd(rd) ==
               /\ symbols' = rd.sy
               /\ reader' = rd.stack
               /\ fed' = fed \o text
               /\ out' = [op |-> "text", text |-> text, k |-> rd.k, read |-> rd.e,
                          prog |-> rd.prog, before |-> reader,
                          forms |-> prev.forms \o rd.prog,
                          clean |-> (prev.clean /\ rd.k = "Ok"),
                          cuts |-> IF fed = <<>> THEN {} ELSE prev.cuts \cup {Len(fed)}]
       IN on_rd(partial(symbols, reader, <<>>, text))
    /\ UNCHANGED <<env, overflow_checks, aborted>>

NextText == \E text \in Texts(MaxInput - Len(fed)) : ReadText(text)

\* One Reader handed a text in chunks
SpecText == Init /\ [][NextText]_vars

\* --------------------------------------------------------------- properties
\* The id of a name, all names of the programs being interned at construction.
SymId(name) == symbols.registry[name]
\* The form of program i as the reader hands it to eval.
FormOf(i) == intern_form(symbols, Program(i)).form
\* The top-level form just evaluated was program i.
Evaluated(i) == out.op = "eval" /\ out.prog = i
\* The positions in the log of the last evaluation of the events of one kind.
Events(kind) == {j \in 1..Len(out.log) : out.log[j].ev = kind}
MacroCalls == {j \in Events("call") : out.log[j].is_macro}
\* What a name is bound to in the global scope of a scope stack.
GlobalOf(vs, name) == env_resolve(<<vs[1]>>, SymId(name))
RECURSIVE SubExpr(_, _)
\* The sub-expression of a form at a path of 0-based child indices.
SubExpr(form, path) ==
    IF path = <<>> THEN form ELSE SubExpr(form.l[Head(path) + 1], Tail(path))
\* The index of the generated programs: calls with m arguments of a fn with n
\* positional parameters, and of a fn / a macro with n positional parameters
\* and a rest parameter.
ExactCallAt(n, m) == NumFixed + n * (MaxArgs + 1) + m + 1
RestCallAt(kind, n, m) ==
    NumFixed + (IF kind = n_fn THEN 1 ELSE 2) * NumArities + n * (MaxArgs + 1) + m + 1

\* C1: after every top-level evaluation, whether it returned a value or an
\* EvalError, the scope stack holds one scope, the global one, as it did
\* before the evaluation.
C1_ScopeDepthBalanced ==
    /\ Len(env) = 1
    /\ out.op = "eval" => Len(out.pre) = Len(env)

\* C1 happens: an evaluation failed inside a let body inside a function body
\* (three scopes deep) and left one scope.
C1_FailedInNestedBodies ==
    /\ out.op = "eval" /\ out.k = "Err"
    /\ \E j \in Events("body") : Len(out.log[j].vars) >= 3
    /\ Len(env) = 1

\* The nested native calls of the programs with an argument of the wrong type,
\* and the child path of that argument.
C2_Cases ==
    { [prog |-> 1, path |-> <<2, 2>>],   \* (+ 1 (+ 2 "x"))
      [prog |-> 2, path |-> <<1>>],      \* (first 5)
      [prog |-> 3, path |-> <<2, 1>>],   \* (+ 1 (rest "x"))
      [prog |-> 4, path |-> <<1>>],      \* (- "x" 1)
      [prog |-> 5, path |-> <<2, 3>>],   \* (* 2 (- 3 1 "x"))
      [prog |-> 6, path |-> <<2, 1>>],   \* (= 1 (= "x" 1))
      [prog |-> 7, path |-> <<2>>] }     \* (= 1 "x")

\* C2: for a top-level form of nested native calls whose argument at child
\* path p has the wrong type, the located excerpt of the top-level frame is the
\* rendered form and its span [start, end) is exactly the serialization of the
\* sub-expression at p.
C2_TraceAccuracy ==
    \A c \in C2_Cases :
        Evaluated(c.prog) =>
            /\ out.k = "Err"
            /\ Len(out.located) = 1
            /\ out.located[1].string = serialize_object(symbols, out.form)
            /\ SubSeq(out.located[1].string, out.located[1].start + 1, out.located[1].end)
                 = serialize_object(symbols, SubExpr(out.form, c.path))

\* The example of C2: (+ 1 (+ 2 "x")) is located at the 3 bytes "x", offsets
\* 10..13.
C2_ExampleLocated ==
    Evaluated(1) =>
        /\ out.located[1].start = 10 /\ out.located[1].end = 13
        /\ SubSeq(out.located[1].string, 11, 13) = <<"\"", "x", "\"">>

\* Texts of one form cut between tokens into the chunks of successive calls of
\* partial, and the form they spell.
C3_Cases ==
    { [chunks |-> << <<"(", "+", " ", "1">>, <<" ", "2", ")">> >>,
       form |-> L(<<S(<<"+">>), N(1), N(2)>>)],
      [chunks |-> << <<"'">>, <<"5">> >>,
       form |-> Q(N(5))],
      [chunks |-> << <<"'">>, <<"(", "+", " ", "1">>, <<" ", "2", ")">> >>,
       form |-> Q(L(<<S(<<"+">>), N(1), N(2)>>))],
      [chunks |-> << <<"(", "+", " ", "1">>, <<"'">>, <<" ", "2", ")">> >>,
       form |-> L(<<S(<<"+">>), N(1), Q(N(2))>>)],
      [chunks |-> << <<"(", "+", " ", "1">>, <<"(", "+", " ", "1">>, <<" ", "2", ")">>,
                     <<" ", "2", ")">> >>,
       form |-> L(<<S(<<"+">>), N(1), L(<<S(<<"+">>), N(1), N(2)>>), N(2)>>)] }

\* The texts of the lines the reader took since its stack was last empty, the
\* line just handled included.
FedTexts == [j \in 1..Len(out.fed) |-> Lines[out.fed[j]]]

\* C3: while the text of one form is fed to the reader chunk by chunk, a call
\* that leaves a list open or a prefix pending emits no form and leaves
\* len() > 0; the call that supplies the closing token leaves len() = 0 and
\* emits exactly one form, the one the text spells.
C3_ReaderContinuation ==
    \A c \in C3_Cases :
        \A j \in 1..Len(c.chunks) :
            (out.op = "line" /\ FedTexts = SubSeq(c.chunks, 1, j)) =>
                /\ out.read = None
                /\ IF j < Len(c.chunks)
                   THEN out.prog = <<>> /\ len(reader) > 0
                   ELSE len(reader) = 0
                        /\ out.prog = <<intern_form(symbols, c.form).form>>

\* C3 happens: a form was completed by the third call, the first two having
\* left a prefix pending and then a list open under it.
C3_CompletedByThirdCall ==
    /\ out.op = "line" /\ Len(out.fed) = 3 /\ out.depth = 2
    /\ len(reader) = 0 /\ Len(out.prog) = 1
    /\ out.prog[1] = intern_form(symbols, Q(L(<<S(<<"+">>), N(1), N(2)>>))).form

\* The state before the last evaluation had terms defined as (fn () min) in the
\* global scope.
C4_TermsDefined == GlobalOf(out.pre, n_terms) = Some(intern_form(symbols, F_terms.l[2]).form)

\* C4 as stated (lexical scoping): the free symbol min of (fn () min), defined
\* at top level, resolves to the global min where the function was defined; a
\* min bound only by the caller's let (program 12) or the caller's parameter list
\* (program 13) is not visible in the body, so the call returns the global min,
\* and fails with an unbound symbol when there is none.
C4_LexicalScoping ==
    \A i \in {12, 13} :
        (Evaluated(i) /\ C4_TermsDefined) =>
            IF GlobalOf(out.pre, n_min) = None THEN out.k = "Err"
            ELSE out.k = "Ok" /\ Some(out.v) = GlobalOf(out.pre, n_min)

\* C4 amended (dynamic scoping): a free symbol in the body of a function
\* resolves against the scope stack at the time of the call, innermost scope
\* first, so a binding in the caller's let or parameter scope is visible in the
\* callee's body and shadows the global one: (let ((min 7)) (terms)) and
\* ((fn (min) (terms)) 7) return 7 whatever the global min is.
C4_DynamicScoping ==
    \A i \in {12, 13} :
        (Evaluated(i) /\ C4_TermsDefined) => out.k = "Ok" /\ out.v = Number(7)

\* C4 happens: the call inside the let returned the let's 7 while the global
\* min was 5.
C4_CallerBindingSeen ==
    /\ Evaluated(12) /\ C4_TermsDefined
    /\ GlobalOf(out.pre, n_min) = Some(Number(5))
    /\ out.v = Number(7)

\* C5: a call with m # n arguments of a fn or a native with n positional
\* parameters and no rest parameter returns an arity error and evaluates no
\* argument: the environment is the one before the call, although every
\* argument is a def.
C5_ArityErrorBeforeArguments ==
    \A i \in {ExactCallAt(n, m) : n \in 0..MaxPos, m \in 0..MaxArgs} \cup {32, 33} :
        (Evaluated(i) /\ Len(out.form.l) - 1 # (IF i = 32 THEN 2 ELSE IF i = 33 THEN 1
                                                ELSE Len(out.form.l[1].l[2].l[2].l))) =>
            /\ out.k = "Err"
            /\ out.e.message[1] = "requires exactly"
            /\ env = out.pre

\* C5 happens: a fn of two parameters was called with one def argument while
\* subs was unbound, and subs is still unbound.
C5_FailedCallLeftSubsUnbound ==
    /\ Evaluated(ExactCallAt(2, 1))
    /\ out.k = "Err"
    /\ GlobalOf(out.pre, n_subs) = None
    /\ GlobalOf(env, n_subs) = None

\* The binding a callable with n positional parameters and a rest parameter
\* must give the arguments 11, .., 10 + m.
C6_Binding(n, m) ==
    [i \in 1..n |-> <<SymId(ParamNames[i]), Number(10 + i)>>]
    \o << <<SymId(RestName), List([i \in 1..(m - n) |-> Number(10 + n + i)])>> >>

\* C6: a call with m >= n arguments of a fn or a macro with n positional
\* parameters and a rest parameter binds: parameter i to argument i, the rest
\* symbol to one List of the arguments n..m-1 in order, m - n of them; with
\* m < n it is an arity error. For the native - (one positional, rest subs):
\* (- 9 1 2) is 6 and (-) an arity error.
C6_RestBinding ==
    /\ \A kind \in {n_fn, n_macro} : \A n \in 0..MaxPos : \A m \in 0..MaxArgs :
          Evaluated(RestCallAt(kind, n, m)) =>
              IF m >= n
              THEN /\ out.k = "Ok"
                   /\ Events("call") = {1}
                   /\ out.log[1].binding = C6_Binding(n, m)
                   /\ Len(out.log[1].binding[n + 1][2].l) = m - n
              ELSE out.k = "Err" /\ out.e.message[1] = "requires at least"
    /\ Evaluated(35) => out.k = "Ok" /\ out.v = Number(6)
    /\ Evaluated(34) => out.k = "Err" /\ out.e.message[1] = "requires at least"

\* C6 happens: a fn with two positional parameters and a rest parameter was
\* called with three arguments, and with two.
C6_RestOfOneBound ==
    /\ Evaluated(RestCallAt(n_fn, 2, 3))
    /\ out.k = "Ok"
    /\ out.log[1].binding[3][2] = List(<<Number(13)>>)

\* The top-level calls of a macro literal with one operand per parameter.
C7_Cases == {17, 18, 27} \cup {RestCallAt(n_macro, n, m) : n \in 0..MaxPos, m \in 0..MaxArgs}

\* C7: a macro call that binds its operands logs, in this order: the call,
\* with the operands bound as the forms they are and not their values; the body,
\* entered in one new scope over the call site's that holds those bindings; the
\* second evaluation, of the form the body returned, once and at the call site's
\* scope stack, the parameters unbound again; and its value as the result of the
\* call. An operand that is a def has defined nothing.
C7_MacroInvocation ==
    \A i \in C7_Cases :
        (Evaluated(i) /\ Events("call") # {}) =>
            LET operands == Tail(out.form.l)
                binding == out.log[1].binding
                values == [j \in 1..Len(binding) |-> binding[j][2]]
                n == Len(binding)
            IN /\ out.log[1].ev = "call" /\ out.log[1].is_macro
               /\ out.log[1].vars = out.pre
               /\ \/ values = operands
                  \/ /\ n >= 1
                     /\ SubSeq(values, 1, n - 1) = SubSeq(operands, 1, n - 1)
                     /\ values[n] = List(SubSeq(operands, n, Len(operands)))
                     /\ binding[n][1] = SymId(RestName)
               /\ out.log[2].ev = "body"
               /\ out.log[2].vars = set_all(Append(out.pre, <<>>), binding)
               /\ Events("body") = {2}
               /\ Events("expand") = {3}
               /\ out.log[3].vars = out.pre
               /\ out.log[3].form = (IF i = 17 THEN Symbol(SymId(n_o1))
                                     ELSE IF i = 18 THEN Number(5)
                                     ELSE IF i = 27 THEN Number(1) ELSE Number(0))
               /\ env = out.pre
               /\ IF i = 17 THEN out.k = "Err" /\ out.e.message[1] = "Unbound symbol"
                  ELSE /\ out.k = "Ok"
                       /\ out.v = out.log[3].form
                       /\ Events("expanded") = {4} /\ out.log[4].v = out.v

\* C7 happens: the macro was called with (def subs 9) as operand while subs was
\* unbound; it returned 5 and subs is unbound.
C7_OperandNotEvaluated ==
    /\ Evaluated(18) /\ out.k = "Ok"
    /\ GlobalOf(out.pre, n_subs) = None /\ GlobalOf(env, n_subs) = None
    /\ out.log[1].binding[1][2] = FormOf(18).l[2]

\* C8 as stated: when the form a macro's body returns is itself a macro call
\* (program 21), one invocation of the outer macro evaluates exactly one macro
\* body and does not invoke the inner macro.
C8_NoInnerExpansion ==
    Evaluated(21) => Cardinality(MacroCalls) = 1 /\ Cardinality(Events("body")) = 1

\* C8 amended: an invocation of a macro evaluates its own body once and then
\* evaluates the form the body returned once; when that form is itself a macro
\* call this second evaluation invokes the inner macro, whose body is evaluated
\* and whose result is evaluated in turn, all within the one invocation of the
\* outer macro: program 21 evaluates two macro bodies and returns 4, the value
\* of the inner macro.
C8_InnerMacroInvoked ==
    /\ Evaluated(21) =>
          /\ out.k = "Ok" /\ out.v = Number(4)
          /\ Cardinality(MacroCalls) = 2
          /\ Cardinality(Events("body")) = 2
          /\ Cardinality(Events("expand")) = 2
    /\ (out.op = "eval" /\ out.k = "Ok") =>
          /\ Cardinality(Events("expand")) = Cardinality(MacroCalls)
          /\ Cardinality(Events("expanded")) = Cardinality(MacroCalls)

\* C8 happens: the outer macro of program 21 returned 4.
C8_TwoBodiesEvaluated ==
    Evaluated(21) /\ out.k = "Ok" /\ Cardinality(MacroCalls) = 2

\* C9: set inside a let, function or macro body writes the topmost scope only.
\* The environment after the top-level form is the one before it, so the
\* symbol resolves as before or is unbound as before; inside the body the new
\* value is read back (programs 23, 26), and an outer let's binding of the
\* symbol is untouched by a set in an inner let (program 25).
C9_SetTopmostOnly ==
    /\ \A i \in {23, 24, 25, 26, 27} : Evaluated(i) => out.k = "Ok" /\ env = out.pre
    /\ Evaluated(23) => out.v = Number(2)
    /\ Evaluated(24) => out.v = Number(2)
    /\ Evaluated(25) => out.v = Number(1)
    /\ Evaluated(26) => out.v = Number(3)
    /\ Evaluated(27) => out.v = Number(1)

\* C9 happens: min was 5 in the global scope, (let ((o1 1)) (set min 2)) returned
\* 2, and min is 5.
C9_GlobalKeptItsValue ==
    /\ Evaluated(24) /\ out.v = Number(2)
    /\ GlobalOf(out.pre, n_min) = Some(Number(5))
    /\ GlobalOf(env, n_min) = Some(Number(5))

\* C10: def inside a let, function or macro body writes the global scope and
\* no other: afterwards the scope stack is the one before with min bound to 5
\* in the global scope, the def returns the value (programs 28, 30, 31), and a
\* let's own binding of min is untouched by it (program 29 returns 1).
C10_DefGlobalOnly ==
    /\ \A i \in {28, 29, 30, 31} :
          Evaluated(i) =>
              /\ out.k = "Ok"
              /\ env = << (SymId(n_min) :> Number(5)) @@ out.pre[1] >>
    /\ \A i \in {28, 30, 31} : Evaluated(i) => out.v = Number(5)
    /\ Evaluated(29) => out.v = Number(1)

\* C10 happens: min was unbound, (let ((o1 1)) (def min 5)) returned 5 and min
\* resolves to 5 in the one scope left.
C10_DefinedFromLet ==
    /\ Evaluated(28) /\ out.v = Number(5)
    /\ GlobalOf(out.pre, n_min) = None
    /\ Len(env) = 1 /\ env_resolve(env, SymId(n_min)) = Some(Number(5))

\* C11: resolution scans the scopes innermost to outermost and returns the
\* first hit. In nested lets that bind the same symbol the body of the inner
\* let sees the inner value (program 37 is 2), the body of the outer let sees
\* the outer value again after the inner let exits (program 38 is 1), and
\* after both exit the symbol resolves as before the form: to its global value
\* when it has one, and not at all otherwise.
C11_InnermostFirst ==
    /\ Evaluated(37) => out.k = "Ok" /\ out.v = Number(2)
    /\ Evaluated(38) => out.k = "Ok" /\ out.v = Number(1)
    /\ \A i \in {37, 38} :
          Evaluated(i) =>
              /\ env = out.pre
              /\ env_resolve(env, SymId(n_min)) = GlobalOf(out.pre, n_min)
              /\ \A j \in Events("body") :
                    env_resolve(out.log[j].vars, SymId(n_min)) = Some(Number(Len(out.log[j].vars) - 1))

\* C11 happens: the nested lets were evaluated while min was unbound, the
\* outer body saw 1 after the inner let had seen 2, and min is unbound again.
C11_UnboundAfterBothExit ==
    /\ Evaluated(38) /\ out.v = Number(1)
    /\ Cardinality(Events("body")) = 2
    /\ GlobalOf(out.pre, n_min) = None
    /\ env_resolve(env, SymId(n_min)) = None

\* C12: every evaluation that terminates ends with a value or an EvalError and
\* never with an abort of the interpreter; so do first applied to an empty
\* list (program 36), a let whose binding entry has fewer than two elements
\* (program 39) and a parameter list that is only &rest (program 40).
C12_ValueOrEvalError ==
    \A i \in {36, 39, 40} : Evaluated(i) => out.k \in {"Ok", "Err"} /\ ~aborted

\* first applied to an empty list ends with a value or an EvalError.
C12_FirstOfEmptyList == Evaluated(36) => out.k \in {"Ok", "Err"}
\* A let whose binding entry holds the symbol only ends with a value or an
\* EvalError.
C12_ShortLetBinding == Evaluated(39) => out.k \in {"Ok", "Err"}
\* A parameter list that is only &rest ends with a value or an EvalError.
C12_OnlyRestMarker == Evaluated(40) => out.k \in {"Ok", "Err"}
\* In a build without overflow checks the parameter list that is only &rest is
\* an EvalError.
C12_OnlyRestMarkerUnchecked ==
    (Evaluated(40) /\ ~overflow_checks) =>
        out.k = "Err" /\ out.e.message[1] = "&rest must be second to last in parameter list"

\* The values of a value, itself included.
RECURSIVE PartsOf(_)
PartsOf(v) ==
    {v} \cup (IF v.t = "List" THEN UNION {PartsOf(v.l[i]) : i \in 1..Len(v.l)}
              ELSE IF v.t \in {"Lambda", "Macro"}
              THEN {v} \cup UNION {PartsOf(v.forms[i]) : i \in 1..Len(v.forms)}
              ELSE {})

\* C13: for every value v that is not Native or SpecialForm, reading the text
\* serialize_object(v) with a fresh Reader yields exactly one form, and that
\* form is equal to v.
C13_RoundTrip ==
    out.op = "readback" => out.k = "Ok" /\ out.prog = <<out.v>>

\* Values built of Bool, Number, Symbol and List only do make the round trip,
\* and the Reader is left with no frame.
C13_RoundTripWithoutStrings ==
    (out.op = "readback" /\ \A w \in PartsOf(out.v) : w.t \in {"Bool", "Number", "Symbol", "List"}) =>
        out.k = "Ok" /\ out.prog = <<out.v>> /\ out.depth = 0 /\ out.interned = {}

\* A String, a Lambda and a Macro never make the round trip.
C13_NoRoundTripOfTheRest ==
    (out.op = "readback" /\ out.v.t \in {"String", "Lambda", "Macro"}) =>
        ~(out.k = "Ok" /\ out.prog = <<out.v>>)

\* The ids the interner sy has allocated.
IdsOf(sy) == {sy.registry[n] : n \in DOMAIN sy.registry}

\* C14: after any sequence of intern calls the interner is a bijection between
\* names and ids: distinct names have distinct ids, as_string of the id of a
\* name is that name, and as_string knows no other id; the five names interned
\* at construction have five ids. A call for a name already seen returns its
\* id and changes nothing; a call for a new name returns an id greater than
\* every id allocated before, and as_string(intern(n)) = n.
C14_InternerBijection ==
    /\ \A n \in DOMAIN symbols.registry : \A m \in DOMAIN symbols.registry :
          n # m => symbols.registry[n] # symbols.registry[m]
    /\ \A n \in DOMAIN symbols.registry : as_string(symbols, symbols.registry[n]) = Some(n)
    /\ DOMAIN symbols.reverse = IdsOf(symbols)
    /\ Cardinality({sym_quote(symbols), sym_quasiquote(symbols), sym_unquote(symbols),
                    sym_unquote_splice(symbols), sym_rest(symbols)}) = 5
    /\ out.op = "intern" =>
          /\ as_string(symbols, out.id) = Some(out.name)
          /\ IF out.name \in DOMAIN out.pre.registry
             THEN out.id = out.pre.registry[out.name] /\ symbols = out.pre
             ELSE /\ \A k \in IdsOf(out.pre) : out.id > k
                  /\ IdsOf(symbols) = IdsOf(out.pre) \cup {out.id}
                  /\ \A n \in DOMAIN out.pre.registry :
                        symbols.registry[n] = out.pre.registry[n]

\* C14 happens: a new name was interned after another new name, and a name
\* interned before was interned again.
C14_SecondNewName ==
    /\ out.op = "intern"
    /\ out.name \notin DOMAIN out.pre.registry
    /\ \E n \in DOMAIN out.pre.registry : n \notin DOMAIN Interpreter_new.sy.registry
\* A name that was new to the fresh interpreter was interned a second time.
C14_SeenNameAgain ==
    /\ out.op = "intern"
    /\ out.name \in DOMAIN out.pre.registry
    /\ out.name \notin DOMAIN Interpreter_new.sy.registry

\* The value the body of the macro of program 44 or 45 returned, which the
\* macro call then evaluates.
C15_Expanded == out.log[CHOOSE j \in Events("expand") : TRUE].form

\* C15 as stated: eval applied to a Bool, Number or String (programs 41 to 43),
\* to a Native (program 44, where a macro returns the value of first) or to a
\* SpecialForm (program 45, where a macro returns the value of def) returns Ok
\* with a value equal to its input and leaves the environment unchanged.
C15_SelfEvaluating ==
    /\ \A i \in {41, 42, 43} :
          Evaluated(i) => out.k = "Ok" /\ out.v = out.form /\ env = out.pre
    /\ Evaluated(44) =>
          C15_Expanded.t = "Native" /\ out.k = "Ok" /\ out.v = C15_Expanded /\ env = out.pre
    /\ Evaluated(45) =>
          C15_Expanded.t = "SpecialForm" /\ out.k = "Ok" /\ out.v = C15_Expanded
          /\ env = out.pre

\* C15 amended: eval applied to a Bool, Number, String or Native returns Ok
\* with a value equal to its input; applied to a SpecialForm it returns the
\* EvalError "Unexpected special form"; the environment is unchanged in every
\* case.
C15_SelfEvaluatingButSpecialForm ==
    /\ \A i \in {41, 42, 43} :
          Evaluated(i) => out.k = "Ok" /\ out.v = out.form /\ env = out.pre
    /\ Evaluated(44) =>
          /\ C15_Expanded = GlobalOf(out.pre, n_first).x
          /\ C15_Expanded.t = "Native" /\ out.k = "Ok" /\ out.v = C15_Expanded /\ env = out.pre
    /\ Evaluated(45) =>
          /\ C15_Expanded = GlobalOf(out.pre, n_def).x
          /\ C15_Expanded.t = "SpecialForm"
          /\ out.k = "Err"
          /\ out.e.message[1] = "Unexpected special form. This is probably an internal error."
          /\ env = out.pre

\* C15 happens: eval was applied to the Native value of first and returned it.
C15_NativeEvaluated ==
    Evaluated(44) /\ out.k = "Ok" /\ out.v.t = "Native" /\ out.v.f = "first"
\* eval was applied to the SpecialForm value of def and returned an EvalError.
C15_SpecialFormEvaluated ==
    Evaluated(45) /\ out.k = "Err" /\ C15_Expanded.t = "SpecialForm"

\* C16: a ReadError is confined to the call of partial that raised it: after
\* the call the frame stack of the Reader is the one it had before the call,
\* and len() is 0 after an error in a chunk that was fed at depth 0.
C16_ReadErrorConfined ==
    (out.op = "line" /\ out.k = "Read") =>
        /\ reader = out.before
        /\ out.depth = 0 => len(reader) = 0

\* A ReadError neither ends the session nor changes the environment.
C16_ReadErrorNotFatal ==
    (out.op = "line" /\ out.k = "Read") => ~aborted /\ env = out.pre

\* After an error in a chunk fed at depth 0 the Reader is at depth 0.
C16_DepthZeroAfterError ==
    (out.op = "line" /\ out.k = "Read" /\ out.depth = 0) => len(reader) = 0

\* After a stray ")" fed while a prefix was pending the prefix is pending.
C16_PrefixStillPending ==
    (out.op = "line" /\ out.k = "Read" /\ out.fed = <<3, 5>>) => reader = out.before

\* The line of text 7 is 5, a prefix and a ")": what is read before the ")".
C17_BeforeTheParen == partial(symbols, out.before, <<>>, Lines[4])

\* C17: a ")" read while the top of the frame stack is not an open list (the
\* stack is empty or its top is a pending prefix) makes partial return
\* UnexpectedRbrace with the byte span of that ")", and no form is emitted for
\* it. Line 5 is the ")" alone, span 0..1; line 7 is 5 ' ) where the ")" meets
\* the prefix before it, span 4..5, and the forms emitted are those of the 5.
C17_UnexpectedRbrace ==
    /\ (out.op = "line" /\ out.line = 5
          /\ (out.before = <<>> \/ Last(out.before).rf # "Sexpr")) =>
            /\ out.k = "Read"
            /\ out.read = UnexpectedRbrace(<<0, 1>>)
            /\ out.prog = <<>> /\ out.printed = <<>>
    /\ (out.op = "line" /\ out.line = 7) =>
            /\ out.k = "Read"
            /\ out.read = UnexpectedRbrace(<<4, 5>>)
            /\ out.prog = C17_BeforeTheParen.prog /\ out.printed = <<>>
    /\ (out.op = "line" /\ out.line = 5
          /\ out.before # <<>> /\ Last(out.before).rf = "Sexpr") =>
            out.k # "Read"

\* C17 happens: a ")" was read while a prefix was pending inside an open list.
C17_ParenOnPendingPrefix ==
    /\ out.op = "line" /\ out.line = 5 /\ out.k = "Read"
    /\ Len(out.before) = 2 /\ out.before[1].rf = "Sexpr" /\ out.before[2].rf = "Quote"
\* A ")" was read while the stack was empty, after a form of the same line.
C17_ParenOnEmptyStack ==
    /\ out.op = "line" /\ out.line = 7 /\ out.k = "Read" /\ out.before = <<>>
    /\ out.prog = <<Number(5)>>

\* Lines fed one after the other to a Reader with an empty stack, and the forms
\* the last of them completes.
C18_Cases ==
    { \* ' , 5
      [fed |-> <<8>>, forms |-> <<Q(L(<<S(n_unquote), N(5)>>))>>],
      \* (' (5) 2)
      [fed |-> <<9>>, forms |-> <<L(<<Q(L(<<N(5)>>)), N(2)>>)>>],
      \* ' then ' then 5
      [fed |-> <<3, 3, 4>>, forms |-> <<Q(Q(N(5)))>>],
      \* ' then ' , 5
      [fed |-> <<3, 8>>, forms |-> <<Q(Q(L(<<S(n_unquote), N(5)>>)))>>],
      \* ' then (' (5) 2)
      [fed |-> <<3, 9>>, forms |-> <<Q(L(<<Q(L(<<N(5)>>)), N(2)>>))>>],
      \* (+ 1 then ' , 5 then 2)
      [fed |-> <<1, 8, 2>>,
       forms |-> <<L(<<S(<<"+">>), N(1), Q(L(<<S(n_unquote), N(5)>>)), N(2)>>)>>],
      \* (+ 1 then ' then 2)
      [fed |-> <<1, 3, 2>>, forms |-> <<L(<<S(<<"+">>), N(1), Q(N(2))>>)>>],
      \* ' then (def min 5) min
      [fed |-> <<3, 6>>, forms |-> <<Q(L(<<S(n_def), S(n_min), N(5)>>)), S(n_min)>>] }

\* C18: each prefix wraps exactly the one next completed object, an atom or a
\* whole closed list. k prefixes in a row before an object give k nested
\* two-element lists, the first prefix outermost; inside an open list only
\* that element is wrapped and appended, the elements after it are appended
\* as they are; at top level the wrapped object is one completed form and the
\* stack is empty.
C18_PrefixWrapsOneObject ==
    \A c \in C18_Cases :
        (out.op = "line" /\ out.fed = c.fed) =>
            /\ out.read = None
            /\ out.prog = [j \in 1..Len(c.forms) |-> intern_form(symbols, c.forms[j]).form]
            /\ len(reader) = 0

\* C18 happens: inside an open list a quoted, closed list was followed by an
\* element, and the list was completed.
C18_WrappedInsideList ==
    /\ out.op = "line" /\ out.fed = <<9>> /\ len(reader) = 0
    /\ Len(out.prog) = 1 /\ Len(out.prog[1].l) = 2
    /\ out.prog[1].l[1] = quote(symbols, List(<<Number(5)>>))
    /\ out.prog[1].l[2] = Number(2)

\* C19: the arguments of a call, the operands of begin and the forms of a body
\* are evaluated in increasing index order, and a global or set write made by
\* one of them is seen by every sibling evaluated after it: (begin (def min 5)
\* min) is 5 (program 46), (- (def min 5) min) is 0 (program 47), (- min (def
\* min 5)) reads the min of before the def and fails, the def not evaluated,
\* when there was none (program 48), the body (def min 5) min of a function is
\* 5 (program 49), and (+ (set o1 2) o1) under a let of o1 is 4 (program 50).
C19_LeftToRight ==
    /\ \A i \in {46, 49} :
          Evaluated(i) => out.k = "Ok" /\ out.v = Number(5)
                          /\ GlobalOf(env, n_min) = Some(Number(5))
    /\ Evaluated(47) => out.k = "Ok" /\ out.v = Number(0)
                        /\ GlobalOf(env, n_min) = Some(Number(5))
    /\ Evaluated(48) =>
          LET before == GlobalOf(out.pre, n_min)
          IN IF before = None
             THEN /\ out.k = "Err" /\ out.e.message[1] = "Unbound symbol"
                  /\ GlobalOf(env, n_min) = None
             ELSE /\ before.x.t = "Number" => out.k = "Ok" /\ out.v = Number(before.x.n - 5)
                  /\ GlobalOf(env, n_min) = Some(Number(5))
    /\ Evaluated(50) => out.k = "Ok" /\ out.v = Number(4) /\ env = out.pre

\* C19 happens: min was unbound, and the second operand of begin read the 5
\* the first operand had defined.
C19_BeginSawTheDef ==
    /\ Evaluated(46) /\ out.k = "Ok" /\ out.v = Number(5)
    /\ GlobalOf(out.pre, n_min) = None

\* C19 happens: min was unbound, the first argument of the call failed on it,
\* and the second argument, the def of min, was not evaluated.
C19_ArgumentFailedBeforeTheDef ==
    /\ Evaluated(48) /\ out.k = "Err"
    /\ GlobalOf(out.pre, n_min) = None
    /\ GlobalOf(env, n_min) = None

\* C20: in let every binding expression is evaluated, left to right, in the
\* enclosing scope before the new scope is pushed. In (let ((min 1) (o2 min))
\* o2) (program 51) the min of the second pair is the global min, or unbound
\* when there is none; in (let ((o1 (def min 5)) (o2 min)) (+ o1 o2)) (program
\* 53) the second expression reads the min the first one defined; and the body
\* of (let ((o1 1) (o2 2)) (+ o1 o2)) (program 52) runs in one new scope that
\* holds both bindings.
C20_LetBindsTogether ==
    /\ Evaluated(51) =>
          /\ IF GlobalOf(out.pre, n_min) = None
             THEN out.k = "Err" /\ out.e.message[1] = "Unbound symbol"
             ELSE out.k = "Ok" /\ Some(out.v) = GlobalOf(out.pre, n_min)
          /\ env = out.pre
    /\ Evaluated(52) =>
          /\ out.k = "Ok" /\ out.v = Number(3) /\ env = out.pre
          /\ \E j \in Events("body") :
                LET vs == out.log[j].vars
                IN /\ Len(vs) = Len(out.pre) + 1
                   /\ Front(vs) = out.pre
                   /\ Last(vs) = (SymId(n_o1) :> Number(1)) @@ (SymId(n_o2) :> Number(2))
    /\ Evaluated(53) =>
          /\ out.k = "Ok" /\ out.v = Number(10)
          /\ GlobalOf(env, n_min) = Some(Number(5))

\* C20 happens: min was bound globally, and the second binding expression of
\* the let read the global min, not the 1 of the first pair.
C20_SecondPairSawTheGlobal ==
    /\ Evaluated(51) /\ out.k = "Ok" /\ out.v = Number(5)
    /\ GlobalOf(out.pre, n_min) = Some(Number(5))

\* C20 happens: min was unbound, and the second binding expression of the let
\* failed on it although the first pair binds min.
C20_SecondPairSawNoBinding ==
    /\ Evaluated(51) /\ out.k = "Err"
    /\ GlobalOf(out.pre, n_min) = None

\* C21: evaluating a symbol that no scope of the stack binds returns an
\* EvalError whose message is Unbound symbol with the name of that symbol, and
\* leaves the environment as it was: the bare symbols min (program 54) and o1
\* (program 55) at top level, and o2 in the body of a let that binds o1 (program
\* 56).
C21_UnboundSymbolNamed ==
    /\ Evaluated(54) =>
          IF GlobalOf(out.pre, n_min) = None
          THEN out.k = "Err" /\ out.e.message = Msg("Unbound symbol", n_min) /\ env = out.pre
          ELSE out.k = "Ok" /\ Some(out.v) = GlobalOf(out.pre, n_min)
    /\ Evaluated(55) =>
          (env_resolve(out.pre, SymId(n_o1)) = None
              => out.k = "Err" /\ out.e.message = Msg("Unbound symbol", n_o1) /\ env = out.pre)
    /\ Evaluated(56) =>
          (env_resolve(out.pre, SymId(n_o2)) = None
              => out.k = "Err" /\ out.e.message = Msg("Unbound symbol", n_o2) /\ env = out.pre)

\* C21 happens: other globals were defined, o2 was not, and the body of the let
\* failed on o2.
C21_UnboundInsideLet ==
    /\ Evaluated(56) /\ out.k = "Err"
    /\ out.e.message = Msg("Unbound symbol", n_o2)
    /\ GlobalOf(out.pre, n_min) # None
    /\ env = out.pre

\* C21 happens: the bare symbol min was evaluated while min had no binding.
C21_UnboundAtTopLevel ==
    /\ Evaluated(54) /\ out.k = "Err"
    /\ out.e.message = Msg("Unbound symbol", n_min)

\* C22: EvalError::new makes an error with an empty trace and no frames;
\* trace(i) appends i to the end of the trace and changes neither the frames
\* nor the message; frame(form) appends (form, current trace) to the end of the
\* frames, leaves every earlier frame as it was, and resets the trace to
\* empty.
C22_NewTraceFrame ==
    out.op = "error" =>
        CASE out.did = "new" ->
                /\ out.e.trace = <<>> /\ out.e.frames = <<>>
                /\ out.e.message = out.arg
          [] out.did = "trace" ->
                /\ Len(out.e.trace) = Len(out.pre.trace) + 1
                /\ Front(out.e.trace) = out.pre.trace
                /\ Last(out.e.trace) = out.arg
                /\ out.e.frames = out.pre.frames
                /\ out.e.message = out.pre.message
          [] out.did = "frame" ->
                /\ Len(out.e.frames) = Len(out.pre.frames) + 1
                /\ Front(out.e.frames) = out.pre.frames
                /\ Last(out.e.frames).form = out.arg
                /\ Last(out.e.frames).trace = out.pre.trace
                /\ out.e.trace = <<>>
                /\ out.e.message = out.pre.message

\* C22 happens: frame was called on an error that already had a frame and an
\* index in its trace.
C22_SecondFrameTaken ==
    /\ out.op = "error" /\ out.did = "frame"
    /\ Len(out.pre.frames) = 1 /\ Len(out.pre.trace) = 1
    /\ Len(out.e.frames) = 2 /\ out.e.trace = <<>>

\* C22 happens: trace was called on an error that already had a frame and an
\* index in its trace.
C22_SecondIndexTraced ==
    /\ out.op = "error" /\ out.did = "trace"
    /\ Len(out.pre.frames) = 1 /\ Len(out.pre.trace) = 1
    /\ Len(out.e.trace) = 2

RECURSIVE TraceTarget(_, _)
\* The sub-expression of a form a trace leads to, None when there is none: the
\* trace is followed from its last index to its first, each index the 0-based
\* index of a child of the list reached so far.
TraceTarget(form, tr) ==
    IF tr = <<>> THEN Some(form)
    ELSE IF form.t # "List" THEN None
    ELSE IF Last(tr) >= Len(form.l) THEN None
    ELSE TraceTarget(form.l[Last(tr) + 1], Front(tr))

\* C23: an error raised while evaluating body form i of a function called from
\* a top-level form is reported with two frames, innermost first: the
\* definition form of the function with a trace that leads to the failing
\* sub-expression inside child i + 2 of the definition, then the top-level form
\* with a trace that leads to the head of the call. (program 57: the "x" of
\* body form 1; program 59: the unbound min of body form 0 of terms.) An error
\* raised while evaluating an argument of the call records no definition frame
\* and is traced at the child index of the argument in the calling form
\* (program 58).
C23_FramesOfACall ==
    /\ Evaluated(57) =>
          LET def == FormOf(57).l[1].l[2]
          IN /\ out.k = "Err" /\ Len(out.e.frames) = 2
             /\ out.e.frames[1].form = def
             /\ Last(out.e.frames[1].trace) = 1 + 2
             /\ TraceTarget(def, out.e.frames[1].trace) = Some(String(<<"x">>))
             /\ out.e.frames[2].form = FormOf(57)
             /\ out.e.frames[2].trace = <<0>>
             /\ Len(out.located) = 2
             /\ out.located[1].string = serialize_object(symbols, def)
             /\ out.located[2].string = serialize_object(symbols, FormOf(57))
    /\ (Evaluated(59) /\ C4_TermsDefined /\ GlobalOf(out.pre, n_min) = None) =>
          LET def == intern_form(symbols, F_terms.l[2]).form
          IN /\ out.k = "Err" /\ Len(out.e.frames) = 2
             /\ out.e.frames[1].form = def
             /\ out.e.frames[1].trace = <<0 + 2>>
             /\ TraceTarget(def, out.e.frames[1].trace) = Some(Symbol(SymId(n_min)))
             /\ out.e.frames[2].form = FormOf(59)
             /\ out.e.frames[2].trace = <<0>>
    /\ Evaluated(58) =>
          /\ out.k = "Err" /\ Len(out.e.frames) = 1
          /\ out.e.frames[1].form = FormOf(58)
          /\ Last(out.e.frames[1].trace) = 1
          /\ TraceTarget(FormOf(58), out.e.frames[1].trace) = Some(String(<<"x">>))

\* C23 happens: terms was defined, min was not, and the call of terms failed in
\* its body.
C23_NamedFunctionFailed ==
    /\ Evaluated(59) /\ C4_TermsDefined /\ GlobalOf(out.pre, n_min) = None
    /\ out.k = "Err" /\ Len(out.e.frames) = 2

\* C23 happens: the second body form of an anonymous function failed.
C23_SecondBodyFormFailed ==
    /\ Evaluated(57) /\ out.k = "Err"
    /\ out.e.frames[1].trace = <<2, 3>>

\* C23 happens: an argument of a call failed.
C23_ArgumentFailed ==
    /\ Evaluated(58) /\ out.k = "Err"
    /\ out.e.frames[1].trace = <<2, 1>>

RECURSIVE IntoEmptyList(_, _)
\* The trace, followed from its last index into the form, arrives at an empty
\* list with indices still to follow.
IntoEmptyList(form, tr) ==
    /\ tr # <<>>
    /\ form.t = "List"
    /\ \/ form.l = <<>>
       \/ /\ Last(tr) < Len(form.l)
          /\ IntoEmptyList(form.l[Last(tr) + 1], Front(tr))

\* C24: for every form and every trace handle_failed_form returns (text,
\* start, end) where text is serialize_object(form) and 0 <= start <= end <=
\* length(text), also for empty lists, for forms that are no lists under a
\* trace that is not empty, and for traces whose index is no child of the
\* list.
C24_LocateSerializes ==
    out.op = "locate" =>
        /\ out.r.string = serialize_object(symbols, out.form)
        /\ 0 <= out.r.start /\ out.r.start <= out.r.end /\ out.r.end <= Len(out.r.string)

\* The text is that of serialize_object whenever the trace does not lead into
\* an empty list.
C24_LocateSerializesButEmptyList ==
    (out.op = "locate" /\ ~IntoEmptyList(out.form, out.trace)) =>
        out.r.string = serialize_object(symbols, out.form)

\* The offsets lie within the returned text for every form and trace.
C24_OffsetsInText ==
    out.op = "locate" =>
        0 <= out.r.start /\ out.r.start <= out.r.end /\ out.r.end <= Len(out.r.string)

\* The empty list under a trace that is not empty is rendered as "(".
C24_EmptyListUnclosed ==
    (out.op = "locate" /\ out.form = List(<<>>) /\ out.trace # <<>>) =>
        out.r = [string |-> <<"(">>, start |-> 0, end |-> 0]

\* An atom was located under a trace of two indices.
C24_AtomUnderTrace ==
    /\ out.op = "locate" /\ out.form = Number(5) /\ Len(out.trace) = 2
    /\ out.r = [string |-> <<"5">>, start |-> 0, end |-> 1]

\* The empty list inside (1 ()) was located under a trace that goes on.
C24_NestedEmptyList ==
    /\ out.op = "locate" /\ out.form = List(<<Number(1), List(<<>>)>>)
    /\ out.trace = <<0, 1>>
    /\ out.r.string = <<"(", "1", " ", "(", ")">>

\* The 0-based indices of the &rest symbols of the list just parsed.
C25_RestIndices == {i \in 0..(Len(out.lst) - 1) : out.lst[i + 1].sym = sym_rest(symbols)}
\* The 0-based index of the first of them.
C25_FirstRest == CHOOSE i \in C25_RestIndices : \A j \in C25_RestIndices : i <= j
\* What the claim says parse_param_list does with the list just parsed.
C25_AsSpecified ==
    LET ids == [i \in 1..Len(out.lst) |-> out.lst[i].sym]
    IN /\ IF C25_RestIndices = {}
          THEN out.r.k = "Ok" /\ out.r.params = ids /\ out.r.rest = None
          ELSE IF C25_FirstRest = Len(ids) - 2
          THEN /\ out.r.k = "Ok"
               /\ out.r.params = SubSeq(ids, 1, C25_FirstRest)
               /\ out.r.rest = Some(ids[Len(ids)])
          ELSE out.r.k = "Err"
       /\ out.r.k = "Ok" =>
             \A i \in 1..Len(out.r.params) : out.r.params[i] # sym_rest(symbols)

\* C25: parse_param_list on a list of symbols returns (all symbols, no rest)
\* when there is no &rest; (the symbols before it, the last symbol as rest)
\* when the first &rest is at index len - 2; and an EvalError when &rest is at
\* any other position. In every successful result the positional sequence holds
\* no &rest symbol.
C25_ParseParamList == out.op = "params" => C25_AsSpecified

\* The same, but for the list (&rest) in a build that checks overflow.
C25_ParseParamListButRestAlone ==
    (out.op = "params" /\ ~(Len(out.lst) = 1 /\ overflow_checks)) => C25_AsSpecified

\* The list (&rest) in a build that checks overflow ends the process.
C25_RestAloneAborts ==
    (out.op = "params" /\ out.lst = <<Symbol(sym_rest(symbols))>> /\ overflow_checks)
        => out.r.k = "Abort"

\* A list with &rest second to last was split.
C25_RestSplitOff ==
    /\ out.op = "params" /\ Len(out.lst) = 3 /\ C25_RestIndices = {1}
    /\ out.r.k = "Ok" /\ Len(out.r.params) = 1 /\ out.r.rest # None

\* A list with &rest in the last position was refused.
C25_RestLastRefused ==
    /\ out.op = "params" /\ Len(out.lst) = 2 /\ C25_RestIndices = {1}
    /\ out.r.k = "Err"

\* C26: if evaluates operand 0 once. When it is true, only operand 1 is
\* evaluated and its value returned (program 60: min is defined, subs is not).
\* When it is false and there are two operands, Bool(false) is returned and
\* operand 1 is not evaluated (program 61). When it is false and there are more
\* operands, operands 2.. are evaluated in order, operand 1 is not, and the last
\* value is returned (program 62: 7, then the def of min, then min; program 64:
\* the predicate is a call, made once). A predicate that is no Bool is an error
\* traced at child index 1, and no operand after it is evaluated (program 63).
C26_If ==
    /\ Evaluated(60) =>
          /\ out.k = "Ok" /\ out.v = Number(5)
          /\ GlobalOf(env, n_min) = Some(Number(5))
          /\ GlobalOf(env, n_subs) = GlobalOf(out.pre, n_subs)
    /\ Evaluated(61) =>
          /\ out.k = "Ok" /\ out.v = Bool(FALSE)
          /\ env = out.pre
    /\ Evaluated(62) =>
          /\ out.k = "Ok" /\ out.v = Number(5)
          /\ GlobalOf(env, n_min) = Some(Number(5))
          /\ GlobalOf(env, n_subs) = GlobalOf(out.pre, n_subs)
    /\ Evaluated(63) =>
          /\ out.k = "Err" /\ out.e.message = Msg("Expected a bool", <<>>)
          /\ out.e.frames = <<[form |-> FormOf(63), trace |-> <<1>>, place |-> <<":", "i", "n", ":">>]>>
          /\ env = out.pre
    /\ Evaluated(64) =>
          /\ out.k = "Ok" /\ out.v = Number(2)
          /\ Cardinality(Events("call")) = 1

\* C26 happens: min and subs were unbound, the predicate was true, and only
\* the def of min was evaluated.
C26_OnlyThenEvaluated ==
    /\ Evaluated(60) /\ out.k = "Ok"
    /\ GlobalOf(out.pre, n_min) = None /\ GlobalOf(out.pre, n_subs) = None
    /\ GlobalOf(env, n_min) # None /\ GlobalOf(env, n_subs) = None

\* C26 happens: min and subs were unbound, the predicate was false, and the
\* operands after operand 1 were evaluated, the last one reading the min the
\* one before it had defined.
C26_ElseOperandsInOrder ==
    /\ Evaluated(62) /\ out.k = "Ok" /\ out.v = Number(5)
    /\ GlobalOf(out.pre, n_min) = None /\ GlobalOf(out.pre, n_subs) = None
    /\ GlobalOf(env, n_subs) = None

\* C26 happens: the predicate was false, there was no else operand, and min
\* stayed unbound.
C26_FalseWithoutElse ==
    /\ Evaluated(61) /\ out.v = Bool(FALSE)
    /\ GlobalOf(env, n_min) = None

\* C27: no input text makes partial return InternalError: over every sequence
\* of chunks the mode of the lexer and the expectation of the reader stay in
\* step, parse_sexp never receives a string-mode token and parse_string never
\* an object-mode token.
C27_NoInternalError ==
    out.op = "text" => (out.k = "Err" => out.read.re # "InternalError")

\* C27 happens: a string was read to its closing delimiter and an object token
\* after it was read in the same call.
C27_ObjectAfterString ==
    /\ out.op = "text" /\ out.text = <<"\"", " ", "\"", "5">>
    /\ out.k = "Ok" /\ out.prog = <<String(<<" ">>), Number(5)>>

\* C27 happens: a string was left open at the end of a chunk, and the next
\* chunk was read from object mode.
C27_OpenStringThenChunk ==
    /\ out.op = "text" /\ out.text = <<"5">> /\ fed = <<"(", "\"", " ", "5">>
    /\ out.k = "Ok" /\ out.before = <<Sexpr(<<>>)>> /\ reader = <<Sexpr(<<Number(5)>>)>>

RECURSIVE ObjectModeAt(_, _, _)
\* The lexer, run over the text from lx on, stands at offset p between two
\* tokens and in object mode: p is neither within a token nor within a string
\* literal.
ObjectModeAt(text, lx, p) ==
    LET on_n(n) ==
            IF n.t = None THEN lx.mode = "Object"
            ELSE IF n.lx.span[1] >= p THEN lx.mode = "Object"
            ELSE IF n.lx.span[2] > p THEN FALSE
            ELSE ObjectModeAt(text, n.lx, p)
    IN on_n(lexer_next(text, lx))

\* A chunk ended after the first p characters of the text at whitespace
\* between tokens, outside a string literal.
C28_CutAtWhitespace(text, p) ==
    /\ IsSkip(text[p]) \/ IsSkip(text[p + 1])
    /\ ObjectModeAt(text, Lexer_new, p)

\* The whole text so far, handed to a new Reader of a new interpreter in one
\* call of partial.
C28_Whole == partial(Interpreter_new.sy, Reader_new, <<>>, fed)

\* C28: chunking does not change what is read. For a text that is read without
\* error, split into chunks at whitespace between tokens outside string
\* literals, the chunks handed one after another to one Reader complete the
\* same forms in the same order as the whole text handed over in one call of
\* partial, and leave the same frame stack.
C28_ChunkingInvariant ==
    LET same(whole) ==
            (/\ whole.k = "Ok"
             /\ \A p \in out.cuts : C28_CutAtWhitespace(fed, p)) =>
                /\ out.clean
                /\ out.forms = whole.prog
                /\ reader = whole.stack
                /\ symbols = whole.sy
    IN out.op = "text" => same(C28_Whole)

\* C28 happens: a form was completed in the first chunk and a list opened in
\* the second, the text cut at the space between them.
C28_CutBetweenForms ==
    /\ out.op = "text" /\ fed = <<"5", " ", "(", "5">> /\ out.cuts = {2}
    /\ out.forms = <<Number(5)>> /\ reader = <<Sexpr(<<Number(5)>>)>>

\* C28 happens: a list was opened in one chunk, filled in the next and closed
\* in a third.
C28_ListOverThreeChunks ==
    /\ out.op = "text" /\ fed = <<"(", " ", "5", ")">> /\ out.cuts = {1, 2}
    /\ out.forms = <<List(<<Number(5)>>)>> /\ reader = <<>>

\* Cut anywhere between two tokens outside a string literal, at whitespace or
\* not, the chunks are read as the whole text is.
C28_CutBetweenTokens ==
    LET same(whole) ==
            (/\ whole.k = "Ok"
             /\ \A p \in out.cuts : ObjectModeAt(fed, Lexer_new, p)) =>
                /\ out.clean
                /\ out.forms = whole.prog
                /\ reader = whole.stack
    IN out.op = "text" => same(C28_Whole)

\* Every frame of the error just reported addresses a sub-expression of its
\* form.
C29_FramesAddressed ==
    \A j \in 1..Len(out.e.frames) :
        TraceTarget(out.e.frames[j].form, out.e.frames[j].trace) # None

\* C29: every (form, trace) frame of an EvalError reported for a top-level
\* form addresses an existing sub-expression: following the trace from its
\* last element to its first, each index is a valid child index of the list
\* reached so far, for every kind of evaluation error.
C29_TraceAddressesSubExpression ==
    (out.op = "eval" /\ out.k = "Err") => C29_FramesAddressed

\* The frames are addressed for every error but the arity error of a native
\* called without arguments ((-), program 34, and (first), program 67).
C29_AddressedButNativeArity ==
    (out.op = "eval" /\ out.k = "Err" /\ out.prog \notin {34, 67}) => C29_FramesAddressed

\* The arity error of a native called without arguments is traced at child
\* index 1 of the calling form, which has no such child.
C29_NativeArityTracedAtOne ==
    \A i \in {34, 67} :
        Evaluated(i) =>
            /\ out.k = "Err" /\ Len(out.e.frames) = 1
            /\ out.e.frames[1].form = FormOf(i) /\ Len(FormOf(i).l) = 1
            /\ out.e.frames[1].trace = <<1>>
            /\ out.located[1].start = 0 /\ out.located[1].end = 0

\* A head that cannot be applied was reported at the head of the form.
C29_InapplicableHead ==
    /\ Evaluated(65) /\ out.k = "Err"
    /\ out.e.frames[Len(out.e.frames)].trace = <<0>>

\* A def of something that is no symbol was reported at child 1.
C29_DefOfNumber ==
    /\ Evaluated(66) /\ out.k = "Err"
    /\ out.e.frames = <<[form |-> FormOf(66), trace |-> <<1>>, place |-> <<":", "i", "n", ":">>]>>

\* C30: def and set write their binding only after operand 1 was evaluated
\* with success. When operand 0 is no symbol ((def 5 1), (set 5 1), and with an
\* operand 1 that would write, (def 5 (def subs 9)) and (set 5 (def subs 9)):
\* programs 66, 68, 71, 72), or when the evaluation of operand 1 fails without
\* a write of its own ((def min o1), (set min o1) and (set o2 o1) under a let
\* of o2, o1 unbound: programs 69, 70, 73), the call returns an EvalError and
\* every scope of the environment is what it was before the call.
C30_NoWriteOnError ==
    /\ \A i \in {66, 68, 71, 72} :
          Evaluated(i) =>
              /\ out.k = "Err" /\ out.e.frames[1].trace = <<1>>
              /\ env = out.pre
    /\ \A i \in {69, 70, 73} :
          (Evaluated(i) /\ env_resolve(out.pre, SymId(n_o1)) = None) =>
              /\ out.k = "Err" /\ out.e.message = Msg("Unbound symbol", n_o1)
              /\ env = out.pre
    /\ Evaluated(73) =>
          \A j \in Events("body") :
              env_resolve(out.log[j].vars, SymId(n_o2)) = Some(Number(1))

\* C30 happens: min was bound, the value of a def of min failed, and min kept
\* its binding.
C30_FailedDefKeptBinding ==
    /\ Evaluated(69) /\ out.k = "Err"
    /\ GlobalOf(out.pre, n_min) = Some(Number(5))
    /\ GlobalOf(env, n_min) = Some(Number(5))

\* C30 happens: min was unbound, the value of a set of min failed, and min
\* stayed unbound.
C30_FailedSetBoundNothing ==
    /\ Evaluated(70) /\ out.k = "Err"
    /\ GlobalOf(out.pre, n_min) = None
    /\ GlobalOf(env, n_min) = None

\* C30 happens: subs was unbound, a def of something that is no symbol
\* failed, and the def of subs in its operand 1 was not evaluated.
C30_OperandNotEvaluated ==
    /\ Evaluated(71) /\ out.k = "Err"
    /\ GlobalOf(out.pre, n_subs) = None
    /\ GlobalOf(env, n_subs) = None

====
